---- MODULE Spec2Model ----
(***************************************************************************)
(* XBlackBox flight data recorder: the recording engine (Recorder), the    *)
(* variable registry (DatarefManager), the settings it reads and the menu  *)
(* callbacks and flight loop that drive it.                                *)
(*                                                                         *)
(* Simulated time, dt and the recording interval are counted in units of   *)
(* 0.05 s (the smallest interval the menu offers), wall-clock time in      *)
(* seconds.  A file is the sequence of blocks the stream accepted: one     *)
(* header, DATA frames, a footer; a block cut short by a write fault is a  *)
(* PARTIAL block.  A value read from the host is the token <<name, index,  *)
(* time of the read>>, so that the place a value lands in a frame can be   *)
(* compared with the header's variable table.                              *)
(***************************************************************************)
EXTENDS Integers, Sequences, FiniteSets, TLC

\* ------------------------------------------------------------------------
\* Bounds of the model
\* ------------------------------------------------------------------------
MaxSimTime == 4
MaxNow == 2
MaxStarts == 2
MaxFaults == 1
MaxMenu == 2
AutoStopDelay == 3
ConfigInterval == 2
ScenarioTicks == 10
MaxRegistryTime == 2
MaxLoads == 3

\* ------------------------------------------------------------------------
\* Program constants
\* ------------------------------------------------------------------------
MAX_ENGINES == 8
FLUSH_INTERVAL == 10
HEADER_FIXED_BYTES == 19 + 272 + 272 + 2
FOOTER_BYTES == 4 + 4 + 8
ARRIVAL_OFFSET == 291
MAX_NAME_LEN == 65535
MAX_STRING_LEN == 255
STRING_BUFFER == 512
NEAR_TENTHS_NM == 50
QUARTER_SECOND == 5

RecordingLevels == {1, 2, 3}
AutoConditions == {"GroundSpeed", "EngineRunning", "WeightOnWheels"}

\* ------------------------------------------------------------------------
\* DatarefManager: the catalogue and the registry
\* ------------------------------------------------------------------------
DatarefDef(n, t, arrSize) == [name |-> n, type |-> t, arraySize |-> arrSize, ref |-> FALSE]

TimeName == "sim/time/total_running_time_sec"
LatName == "sim/flightmodel/position/latitude"
LonName == "sim/flightmodel/position/longitude"
GsName == "sim/flightmodel/position/groundspeed"
EngName == "sim/flightmodel/engine/ENGN_running"
WowName == "sim/flightmodel/failures/onground_any"

\* A sample of the catalogue that keeps every kind/arity form of each level.
BasicCatalogue ==
    << DatarefDef(TimeName, "Float", 0),
       DatarefDef("sim/time/local_date_days", "Int", 0),
       DatarefDef("sim/aircraft/view/acf_descrip", "String", 0) >>

NormalCatalogue ==
    << DatarefDef("sim/flightmodel/engine/ENGN_thro", "Float", MAX_ENGINES),
       DatarefDef(EngName, "Int", MAX_ENGINES) >>

DetailedCatalogue ==
    << DatarefDef("sim/cockpit/autopilot/autopilot_state", "Int", 0),
       DatarefDef("sim/weather/wind_speed_kt", "Float", 3) >>

CatalogueNames ==
    { BasicCatalogue[i].name : i \in DOMAIN BasicCatalogue }
    \cup { NormalCatalogue[i].name : i \in DOMAIN NormalCatalogue }
    \cup { DetailedCatalogue[i].name : i \in DOMAIN DetailedCatalogue }

AllHostNames == CatalogueNames \cup {LatName, LonName, GsName, WowName}

\* XPLMFindDataRef: a handle (TRUE) when the host exposes the name.
XPLMFindDataRef(hv, n) == n \in hv

\* AddDataref: a definition the host does not expose is not registered.
AddDataref(defs, hv, d) ==
    IF ~XPLMFindDataRef(hv, d.name)
    THEN defs
    ELSE Append(defs, [d EXCEPT !.ref = TRUE])

RECURSIVE AddAll(_, _, _, _)
AddAll(defs, hv, cat, k) ==
    IF k > Len(cat) THEN defs
    ELSE AddAll(AddDataref(defs, hv, cat[k]), hv, cat, k + 1)

LoadBasicDatarefs(defs, hv) == AddAll(defs, hv, BasicCatalogue, 1)
LoadNormalDatarefs(defs, hv) == AddAll(defs, hv, NormalCatalogue, 1)
LoadDetailedDatarefs(defs, hv) == AddAll(defs, hv, DetailedCatalogue, 1)

\* LoadDatarefs appends to the list it is given.
LoadDatarefs(defs, level, hv) ==
    LET b == LoadBasicDatarefs(defs, hv)
        n == IF level >= 2 THEN LoadNormalDatarefs(b, hv) ELSE b
    IN  IF level >= 3 THEN LoadDetailedDatarefs(n, hv) ELSE n

EmptyValues == [floats |-> << >>, ints |-> << >>, strings |-> << >>]

\* AddDataref's m_datarefIndex[name] = m_datarefs.size(), for the definitions
\* registered from the k-th of the list on: each name is mapped to the
\* position (from 0) of the definition just registered under it.
RECURSIVE IndexAll(_, _, _)
IndexAll(idx, defs, k) ==
    IF k > Len(defs) THEN idx
    ELSE IndexAll([n \in DOMAIN idx \cup {defs[k].name} |->
                      IF n = defs[k].name THEN k - 1 ELSE idx[n]], defs, k + 1)

\* The manager as constructed: nothing registered, nothing read.
DatarefManager0 == [m_datarefs |-> << >>, m_datarefIndex |-> << >>, vals |-> EmptyValues]

\* Init() on a manager: loads onto the list and the map as they are.
DatarefManagerInitOn(mgr, level, hv) ==
    LET defs == LoadDatarefs(mgr.m_datarefs, level, hv)
    IN  [mgr EXCEPT !.m_datarefs = defs,
                    !.m_datarefIndex = IndexAll(@, defs, Len(mgr.m_datarefs) + 1)]

\* The first Init(), on the manager as constructed.
DatarefManagerInit(level, hv) == DatarefManagerInitOn(DatarefManager0, level, hv)

\* Reload that loads without clearing first.
ReloadKeeping(mgr, level, hv) == DatarefManagerInitOn(mgr, level, hv)

\* Reload clears the definition list and the map (not the value vectors) and
\* loads again.
Reload(mgr, level, hv) ==
    LET defs == LoadDatarefs(<< >>, level, hv)
    IN  [mgr EXCEPT !.m_datarefs = defs, !.m_datarefIndex = IndexAll(<< >>, defs, 1)]

\* A host read of variable n at index i at simulated time t.
HostValue(n, i, t) == <<n, i, t>>

\* What the host's float reads return during one snapshot: finite values,
\* NaN or an infinity.
FloatReads == {"finite", "nan", "inf"}

\* The host as one snapshot sees it: the time of the reads and what the
\* float reads return.
HostRead(t, float) == [t |-> t, float |-> float]

\* XPLMGetDataf / XPLMGetDatavf.
HostFloat(n, i, rd) ==
    IF rd.float = "finite" THEN HostValue(n, i, rd.t) ELSE <<rd.float, i, rd.t>>

IsFinite(v) == v[1] \notin (FloatReads \ {"finite"})

Slots(d) == IF d.arraySize > 0 THEN d.arraySize ELSE 1

\* The array read with the highest index first.
\* One element of an array: floats and ints are stored as read.
ReadElement(d, i, rd) ==
    IF d.type = "Float" THEN HostFloat(d.name, i, rd) ELSE HostValue(d.name, i, rd.t)

RECURSIVE ReadArrayDescending(_, _, _, _)
ReadArrayDescending(d, i, rd, acc) ==
    IF i >= d.arraySize THEN acc
    ELSE ReadArrayDescending(d, i + 1, rd, <<ReadElement(d, i, rd)>> \o acc)

RECURSIVE ReadArray(_, _, _, _)
ReadArray(d, i, rd, acc) ==
    IF i >= d.arraySize THEN acc
    ELSE ReadArray(d, i + 1, rd, Append(acc, ReadElement(d, i, rd)))

RECURSIVE ZeroFill(_, _, _)
ZeroFill(n, z, acc) == IF n = 0 THEN acc ELSE ZeroFill(n - 1, z, Append(acc, z))

ZeroFloat == <<"zero", 0, 0>>
ZeroInt == <<"zero", 0, 0>>
EmptyString == <<"empty", 0, 0>>

\* A scalar float: NaN and the infinities are replaced by 0.0.
ReadScalarFloat(d, rd) ==
    LET value == HostFloat(d.name, 0, rd)
    IN  IF ~IsFinite(value) THEN ZeroFloat ELSE value

\* One definition's contribution to the three value vectors.
ReadOne(v, d, rd) ==
    IF ~d.ref
    THEN CASE d.type = "Float" -> [v EXCEPT !.floats = @ \o ZeroFill(Slots(d), ZeroFloat, << >>)]
           [] d.type = "Int" -> [v EXCEPT !.ints = @ \o ZeroFill(Slots(d), ZeroInt, << >>)]
           [] OTHER -> [v EXCEPT !.strings = Append(@, EmptyString)]
    ELSE IF d.arraySize > 0
    THEN CASE d.type = "Float" -> [v EXCEPT !.floats = @ \o ReadArray(d, 0, rd, << >>)]
           [] d.type = "Int" -> [v EXCEPT !.ints = @ \o ReadArray(d, 0, rd, << >>)]
           [] OTHER -> v
    ELSE CASE d.type = "Float" -> [v EXCEPT !.floats = Append(@, ReadScalarFloat(d, rd))]
           [] d.type = "Int" -> [v EXCEPT !.ints = Append(@, HostValue(d.name, 0, rd.t))]
           [] OTHER -> [v EXCEPT !.strings = Append(@, HostValue(d.name, 0, rd.t))]

RECURSIVE ReadFrom(_, _, _, _)
ReadFrom(v, defs, k, rd) ==
    IF k > Len(defs) THEN v ELSE ReadFrom(ReadOne(v, defs[k], rd), defs, k + 1, rd)

\* ReadCurrentValues that appends to the vectors of the snapshot before.
ReadCurrentValuesAppending(mgr, rd) ==
    [mgr EXCEPT !.vals = ReadFrom(@, mgr.m_datarefs, 1, rd)]

\* ReadCurrentValues clears the three vectors and fills them in list order.
ReadCurrentValues(mgr, rd) ==
    [mgr EXCEPT !.vals = ReadFrom(EmptyValues, mgr.m_datarefs, 1, rd)]

\* ------------------------------------------------------------------------
\* Recorder: airports, the file, the binary writers
\* ------------------------------------------------------------------------
AirportInfo(icao, name, lat, lon, valid) ==
    [icao |-> icao, name |-> name, lat |-> lat, lon |-> lon, valid |-> valid]

\* AirportInfo(): zeroed code and name, zero coordinates, not valid.
NoAirport == AirportInfo("", "", 0, 0, FALSE)

\* What XPLMFindNavAid / XPLMGetNavAidInfo answer for the queried position,
\* with the distance CalculateDistance gives for it, in tenths of a nautical mile.
NavAid(found, id, name, lat, lon, dist) ==
    [found |-> found, id |-> id, name |-> name, lat |-> lat, lon |-> lon, dist |-> dist]

NavNotFound == NavAid(FALSE, "", "", 0, 0, 0)
NavNear == NavAid(TRUE, "KSFO", "San Francisco Intl", 37, -122, 30)
NavFar == NavAid(TRUE, "KLAX", "Los Angeles Intl", 33, -118, 51)
NavAtLimit == NavAid(TRUE, "KOAK", "Oakland Intl", 38, -122, NEAR_TENTHS_NM)
ScenarioNavs == {NavNotFound, NavNear, NavFar}
NavChoices == ScenarioNavs \cup {NavAtLimit}

CalculateDistance(nav) == nav.dist

\* DetectNearestAirport that takes only an airport nearer than the limit.
DetectNearestAirportStrict(nav) ==
    IF nav.found /\ CalculateDistance(nav) < NEAR_TENTHS_NM
    THEN AirportInfo(nav.id, nav.name, nav.lat, nav.lon, TRUE)
    ELSE NoAirport

DetectNearestAirport(nav) ==
    IF nav.found /\ CalculateDistance(nav) <= NEAR_TENTHS_NM
    THEN AirportInfo(nav.id, nav.name, nav.lat, nav.lon, TRUE)
    ELSE NoAirport

\* The airport block as written to the file: code, coordinates, name.
AirportBlock(a) == [icao |-> a.icao, lat |-> a.lat, lon |-> a.lon, name |-> a.name]
EmptyAirportBlock == [icao |-> "", lat |-> 0, lon |-> 0, name |-> ""]

\* The stream: pos is the write position, "end" or a byte offset; pending
\* counts the blocks appended since the last explicit flush.
NullFile == [open |-> FALSE, path |-> 0, good |-> FALSE, pos |-> "end", pending |-> 0]
OpenFile(p) == [open |-> TRUE, path |-> p, good |-> TRUE, pos |-> "end", pending |-> 0]

Partial(kind) == [b |-> "PARTIAL", of |-> kind]

\* The stream accepts a block only while it is in a good state.  A block
\* written with the position inside the header lands on what is there.
Put(W, block) ==
    LET f == W.r.m_currentFile
    IN  IF f.open /\ f.good
        THEN IF f.pos = "end"
             THEN [W EXCEPT !.d[f.path] = Append(@, block),
                            !.r.m_currentFile.pending = @ + 1]
             ELSE [W EXCEPT !.d[f.path][1] = [b |-> "OVERWRITTEN", by |-> block.b]]
        ELSE W

\* flush(): a good stream hands what it holds to the storage.
Flush(W) ==
    IF W.r.m_currentFile.open /\ W.r.m_currentFile.good
    THEN [W EXCEPT !.r.m_currentFile.pending = 0]
    ELSE W

\* A write fault: the stream leaves the good state and stays out of it.
Fail(W) == [W EXCEPT !.r.m_currentFile.good = FALSE]

AddBytes(W, n) == [W EXCEPT !.r.m_bytesWritten = @ + n]

TypeCode(t) == IF t = "Float" THEN 0 ELSE IF t = "Int" THEN 1 ELSE 2

RECURSIVE HeaderTable(_, _, _)
HeaderTable(defs, k, acc) ==
    IF k > Len(defs) THEN acc
    ELSE IF Len(defs[k].name) > MAX_NAME_LEN
    THEN HeaderTable(defs, k + 1, acc)
    ELSE HeaderTable(defs, k + 1,
             Append(acc, [name |-> defs[k].name, kindCode |-> TypeCode(defs[k].type),
                          arity |-> defs[k].arraySize % 256]))

RECURSIVE TableBytes(_, _)
TableBytes(defs, k) ==
    IF k > Len(defs) THEN 0
    ELSE (IF Len(defs[k].name) > MAX_NAME_LEN THEN 0 ELSE 2 + Len(defs[k].name) + 1 + 1)
         + TableBytes(defs, k + 1)

HeaderBlock(W, S) ==
    [b |-> "XFDR", version |-> 2,
     level |-> S.m_recordingLevel,
     interval |-> S.m_recordingInterval,
     startTs |-> W.r.m_recordingStartTime,
     dep |-> AirportBlock(W.r.m_departureAirport),
     arr |-> EmptyAirportBlock,
     count |-> Len(W.m.m_datarefs) % 65536,
     table |-> HeaderTable(W.m.m_datarefs, 1, << >>)]

\* WriteHeader.  fault: where the stream fails, if it does.
WriteHeader(W, S, fault) ==
    LET f == W.r.m_currentFile
    IN  IF ~f.open THEN W
        ELSE IF ~f.good THEN W
        ELSE IF fault = "hdrMagic" THEN Fail(W)
        ELSE IF fault = "hdrThrow" THEN AddBytes(Put(W, Partial("XFDR")), 4)
        ELSE LET n == HEADER_FIXED_BYTES + TableBytes(W.m.m_datarefs, 1)
             IN  CASE fault = "hdrBody" -> AddBytes(Fail(Put(W, Partial("XFDR"))), n)
                   [] fault = "hdrFlush" -> AddBytes(Fail(Put(W, HeaderBlock(W, S))), n)
                   [] OTHER -> Flush(AddBytes(Put(W, HeaderBlock(W, S)), n))

\* WriteFooter.
WriteFooter(W, now, fault) ==
    LET f == W.r.m_currentFile
        foot == [b |-> "ENDR", recordCount |-> W.r.m_recordCount, endTs |-> now]
    IN  IF ~f.open THEN W
        ELSE IF ~f.good THEN W
        ELSE IF fault = "footerThrow" THEN W
        ELSE IF fault = "footerMarker" THEN Fail(W)
        ELSE CASE fault = "footerBody" -> AddBytes(Fail(Put(W, Partial("ENDR"))), FOOTER_BYTES)
               [] fault = "footerFlush" -> AddBytes(Fail(Put(W, foot)), FOOTER_BYTES)
               [] OTHER -> Flush(AddBytes(Put(W, foot), FOOTER_BYTES))

\* The fixed part of the header as WriteHeader lays it out: field, offset
\* of its first byte, number of bytes.
HeaderFields ==
    << [f |-> "b", at |-> 0, n |-> 4],
       [f |-> "version", at |-> 4, n |-> 2],
       [f |-> "level", at |-> 6, n |-> 1],
       [f |-> "interval", at |-> 7, n |-> 4],
       [f |-> "startTs", at |-> 11, n |-> 8],
       [f |-> "dep", at |-> 19, n |-> 8 + 4 + 4 + 256],
       [f |-> "arr", at |-> 19 + 272, n |-> 8 + 4 + 4 + 256],
       [f |-> "count", at |-> 19 + 272 + 272, n |-> 2] >>

\* The bytes of an airport block: code, two floats, name.
ARRIVAL_BLOCK_BYTES == 8 + 4 + 4 + 256

\* n bytes written over the header from offset at: the field that lies
\* exactly there takes the new content; any other extent damages the header.
PatchAt(hdr, at, n, content) ==
    IF \E k \in DOMAIN HeaderFields : HeaderFields[k].at = at /\ HeaderFields[k].n = n
    THEN LET k == CHOOSE k \in DOMAIN HeaderFields : HeaderFields[k].at = at
         IN  [hdr EXCEPT ![HeaderFields[k].f] = content]
    ELSE [b |-> "OVERWRITTEN", by |-> "patch"]

Seek(W, pos) == [W EXCEPT !.r.m_currentFile.pos = pos]

\* The patch written at the departure block's offset.
UpdateHeaderAtDeparture(W, fault) ==
    LET f == W.r.m_currentFile
    IN  IF ~f.open \/ ~f.good THEN W
        ELSE [W EXCEPT !.d[f.path][1] =
                 PatchAt(@, 19, ARRIVAL_BLOCK_BYTES, AirportBlock(W.r.m_arrivalAirport))]

\* UpdateHeaderWithArrival: save the position, seek to the arrival block,
\* overwrite it, seek back.  Nothing reaches the file, and no seek takes
\* effect, once the stream has left the good state.
UpdateHeaderWithArrival(W, fault) ==
    LET f == W.r.m_currentFile
        currentPos == f.pos
        S == Seek(W, ARRIVAL_OFFSET)
    IN  IF ~f.open THEN W
        ELSE IF fault = "patchThrow" THEN W
        ELSE IF ~f.good THEN W
        ELSE IF fault = "patchFault"
        THEN Fail([W EXCEPT !.d[f.path][1].arr = Partial("arrival")])
        ELSE Seek([S EXCEPT !.d[f.path][1] =
                      PatchAt(@, S.r.m_currentFile.pos, ARRIVAL_BLOCK_BYTES,
                              AirportBlock(W.r.m_arrivalAirport))],
                  currentPos)

\* FlushBuffer.
FlushBuffer(W, fault) ==
    IF W.r.m_currentFile.open /\ fault = "flushFault" THEN Fail(W) ELSE Flush(W)

\* The host text a token stands for has this many bytes.
HostTextLen == 12
TextLen(v) == IF v = EmptyString THEN 0 ELSE HostTextLen
Min(a, b) == IF a < b THEN a ELSE b

Entry(k, v) == [kind |-> k, v |-> v]
EntryBytes(e) == IF e.kind = "s" THEN 1 + Min(TextLen(e.v), MAX_STRING_LEN) ELSE 4

\* The serializer's cursor: the three read indices and the entries written.
Cursor0 == [fi |-> 1, ii |-> 1, si |-> 1, out |-> << >>]

WriteFloatAt(c, vals) ==
    IF c.fi <= Len(vals.floats)
    THEN [c EXCEPT !.out = Append(@, Entry("f", vals.floats[c.fi])), !.fi = @ + 1]
    ELSE [c EXCEPT !.out = Append(@, Entry("f", ZeroFloat))]

WriteIntAt(c, vals) ==
    IF c.ii <= Len(vals.ints)
    THEN [c EXCEPT !.out = Append(@, Entry("i", vals.ints[c.ii])), !.ii = @ + 1]
    ELSE [c EXCEPT !.out = Append(@, Entry("i", ZeroInt))]

WriteStringAt(c, vals) ==
    IF c.si <= Len(vals.strings)
    THEN [c EXCEPT !.out = Append(@, Entry("s", vals.strings[c.si])), !.si = @ + 1]
    ELSE [c EXCEPT !.out = Append(@, Entry("s", EmptyString))]

RECURSIVE WriteArrayValues(_, _, _, _)
WriteArrayValues(c, d, i, vals) ==
    IF i >= d.arraySize THEN c
    ELSE WriteArrayValues(
             CASE d.type = "Float" -> WriteFloatAt(c, vals)
               [] d.type = "Int" -> WriteIntAt(c, vals)
               [] OTHER -> c,
             d, i + 1, vals)

WriteDefValues(c, d, vals) ==
    IF d.arraySize > 0
    THEN WriteArrayValues(c, d, 0, vals)
    ELSE CASE d.type = "Float" -> WriteFloatAt(c, vals)
           [] d.type = "Int" -> WriteIntAt(c, vals)
           [] OTHER -> WriteStringAt(c, vals)

RECURSIVE FrameValues(_, _, _, _)
FrameValues(c, defs, k, vals) ==
    IF k > Len(defs) THEN c
    ELSE FrameValues(WriteDefValues(c, defs[k], vals), defs, k + 1, vals)

RECURSIVE SumBytes(_, _)
SumBytes(es, k) == IF k > Len(es) THEN 0 ELSE EntryBytes(es[k]) + SumBytes(es, k + 1)

\* ------------------------------------------------------------------------
\* Recorder: Start, Stop, RecordFrame, Update
\*
\* The operators work on a record W of everything a call can touch:
\*   r  the Recorder object        m  the DatarefManager object
\*   d  the files on disk          st the function-local statics
\*   ret the value the call returned, and counters of what the call did
\*   (nStart/nStop: calls of Start()/Stop() past their first guard,
\*    nTry: frames attempted, nFrame: frames the stream accepted whole).
\* ------------------------------------------------------------------------
Recorder0 ==
    [m_isRecording |-> FALSE,
     m_currentFile |-> NullFile,
     m_currentFilePath |-> 0,
     m_recordingStartTime |-> 0,
     m_lastRecordTime |-> 0,
     m_lastUpdateTime |-> 0,
     m_autoStopTimer |-> 0,
     m_recordCount |-> 0,
     m_bytesWritten |-> 0,
     m_departureAirport |-> NoAirport,
     m_arrivalAirport |-> NoAirport,
     m_averageRecordTime |-> 0,
     m_maxRecordTime |-> 0,
     m_totalRecordTime |-> 0,
     m_perfSampleCount |-> 0]

\* Close the stream and keep the handle.
CloseOnly(W) == [W EXCEPT !.r.m_currentFile.good = FALSE]

\* Close the stream and drop the handle.
CloseAndReset(W) == [W EXCEPT !.r.m_currentFile = NullFile]

Return(W, v) == [W EXCEPT !.ret = v]

StartOutcomes ==
    {"ok", "tmFail", "openFail", "notGood", "hdrMagic", "hdrBody", "hdrFlush", "hdrThrow"}
StartEnvs == [out : StartOutcomes, nav : NavChoices]
StartEnv0 == [out |-> "ok", nav |-> NavNotFound]

\* The file name is the prefix and the local time to the second.
FilePath(now) == now

DetectDeparture(W, hv, nav) ==
    IF XPLMFindDataRef(hv, LatName) /\ XPLMFindDataRef(hv, LonName)
    THEN [W EXCEPT !.r.m_departureAirport = DetectNearestAirport(nav)]
    ELSE W

\* The end of Start() that leaves the timer and the accumulators alone.
SetRecordingStateKeeping(W, now) ==
    [W EXCEPT !.r.m_isRecording = TRUE,
              !.r.m_recordingStartTime = now,
              !.r.m_lastRecordTime = 0,
              !.r.m_recordCount = 0,
              !.r.m_bytesWritten = 0]

SetRecordingState(W, now) ==
    [W EXCEPT !.r.m_isRecording = TRUE,
              !.r.m_recordingStartTime = now,
              !.r.m_lastRecordTime = 0,
              !.r.m_recordCount = 0,
              !.r.m_bytesWritten = 0,
              !.r.m_autoStopTimer = 0,
              !.r.m_averageRecordTime = 0,
              !.r.m_maxRecordTime = 0,
              !.r.m_totalRecordTime = 0,
              !.r.m_perfSampleCount = 0]

\* Start() up to the header: the path, the stream, the departure, the header.
\* done says the call has returned (failure) before the header was written.
StartToHeader(W0, S, hv, now, env) ==
    LET W == [W0 EXCEPT !.nStart = @ + 1]
    IN  IF env.out = "tmFail" THEN [w |-> Return(W, FALSE), done |-> TRUE]
        ELSE
        LET p == FilePath(now)
            W1 == [W EXCEPT !.r.m_currentFilePath = p]
        IN  IF env.out = "openFail"
            THEN [w |-> Return(CloseAndReset(W1), FALSE), done |-> TRUE]
            ELSE
            LET W2 == [W1 EXCEPT !.r.m_currentFile = OpenFile(p),
                                 !.d = [q \in DOMAIN @ \cup {p} |-> IF q = p THEN << >> ELSE @[q]]]
            IN  IF env.out = "notGood"
                THEN [w |-> Return(CloseAndReset(W2), FALSE), done |-> TRUE]
                ELSE [w |-> WriteHeader(DetectDeparture(W2, hv, env.nav), S, env.out),
                      done |-> FALSE]

\* Start() from the header on.
StartFromHeader(H, now, env) ==
    IF H.done THEN H.w
    ELSE IF env.out = "hdrThrow" THEN Return(CloseAndReset(H.w), FALSE)
    ELSE IF ~H.w.r.m_currentFile.good THEN Return(CloseAndReset(H.w), FALSE)
    ELSE Return(SetRecordingState(H.w, now), TRUE)

\* Start() without its first guard.
StartUnguarded(W0, S, hv, now, env) ==
    StartFromHeader(StartToHeader(W0, S, hv, now, env), now, env)

\* Start() that does not look at the stream after the header.
StartTrustsHeader(W0, S, hv, now, env) ==
    IF W0.r.m_isRecording THEN Return(W0, FALSE)
    ELSE LET H == StartToHeader(W0, S, hv, now, env)
         IN  IF H.done THEN H.w
             ELSE IF env.out = "hdrThrow" THEN Return(CloseAndReset(H.w), FALSE)
             ELSE Return(SetRecordingState(H.w, now), TRUE)

Start(W0, S, hv, now, env) ==
    IF W0.r.m_isRecording THEN Return(W0, FALSE)
    ELSE StartFromHeader(StartToHeader(W0, S, hv, now, env), now, env)

StopOutcomes ==
    {"ok", "flushFault", "flushThrow", "patchFault", "patchThrow",
     "footerMarker", "footerBody", "footerFlush", "footerThrow", "closeThrow"}
StopEnvs == [out : StopOutcomes, nav : NavChoices]
StopEnv0 == [out |-> "ok", nav |-> NavNotFound]

DetectArrival(W, hv, nav) ==
    IF XPLMFindDataRef(hv, LatName) /\ XPLMFindDataRef(hv, LonName)
    THEN [W EXCEPT !.r.m_arrivalAirport = DetectNearestAirport(nav)]
    ELSE W

\* Stop() up to the footer: the arrival, the flush, the header patch, the
\* footer, each in its own try block.
StopToFooter(W0, hv, now, env) ==
    LET W1 == DetectArrival([W0 EXCEPT !.nStop = @ + 1], hv, env.nav)
        W2 == IF env.out = "flushThrow" THEN W1 ELSE FlushBuffer(W1, env.out)
        W3 == IF W2.r.m_arrivalAirport.valid
              THEN UpdateHeaderWithArrival(W2, env.out)
              ELSE W2
    IN  WriteFooter(W3, now, env.out)

\* Stop() from the close on.
StopClose(W4) ==
    LET W5 == IF W4.r.m_currentFile.open THEN CloseAndReset(W4) ELSE W4
    IN  Return([W5 EXCEPT !.r.m_isRecording = FALSE], TRUE)

\* Stop() that lets an exception of the footer write or the close escape.
StopThrows(W0, hv, now, env) ==
    IF ~W0.r.m_isRecording THEN Return(W0, FALSE)
    ELSE IF env.out \in {"footerThrow", "closeThrow"}
    THEN Return(StopToFooter(W0, hv, now, env), FALSE)
    ELSE StopClose(StopToFooter(W0, hv, now, env))

Stop(W0, hv, now, env) ==
    IF ~W0.r.m_isRecording THEN Return(W0, FALSE)
    ELSE StopClose(StopToFooter(W0, hv, now, env))

FrameFaults == {"none", "marker", "values", "flush"}
RecordTimes == {1, 2}
FrameEnvs == [fault : FrameFaults, rt : RecordTimes, read : FloatReads]
FrameEnv0 == [fault |-> "none", rt |-> 1, read |-> "finite"]

Static(st, which, hv, n) ==
    IF st[which] = "unset"
    THEN [st EXCEPT ![which] = IF XPLMFindDataRef(hv, n) THEN "found" ELSE "null"]
    ELSE st

\* Performance tracking that takes a sample only on the frames that flush.
TrackPerformanceOnFlush(W, rt) ==
    IF W.r.m_recordCount % FLUSH_INTERVAL # 0 THEN W
    ELSE LET total == W.r.m_totalRecordTime + rt
             cnt == W.r.m_perfSampleCount + 1
         IN  [W EXCEPT !.r.m_totalRecordTime = total,
                       !.r.m_perfSampleCount = cnt,
                       !.r.m_averageRecordTime = total \div cnt,
                       !.r.m_maxRecordTime = IF rt > @ THEN rt ELSE @]

TrackPerformance(W, rt) ==
    LET total == W.r.m_totalRecordTime + rt
        cnt == W.r.m_perfSampleCount + 1
    IN  [W EXCEPT !.r.m_totalRecordTime = total,
                  !.r.m_perfSampleCount = cnt,
                  !.r.m_averageRecordTime = total \div cnt,
                  !.r.m_maxRecordTime = IF rt > @ THEN rt ELSE @]

\* The end of RecordFrame without the periodic flush.
FlushNever(W, fe) == W

\* The periodic flush at the end of RecordFrame.
FlushEvery(W, fe) ==
    IF W.r.m_recordCount % FLUSH_INTERVAL = 0 /\ W.r.m_currentFile.good
    THEN IF fe.fault = "flush" THEN Fail(W) ELSE Flush(W)
    ELSE W

\* RecordFrame from the snapshot on: the reads, the frame, the counters.
WriteFrame(W0, hv, now, t, fe, pe) ==
    LET W1 == [W0 EXCEPT !.m = ReadCurrentValues(@, HostRead(t, fe.read)), !.nTry = @ + 1,
                         !.st = Static(@, "frameTimeRef", hv, TimeName)]
        ts == IF W1.st.frameTimeRef = "found" THEN t ELSE 0
        c == FrameValues(Cursor0, W1.m.m_datarefs, 1, W1.m.vals)
        n == 4 + 4 + SumBytes(c.out, 1)
        frame == [b |-> "DATA", ts |-> ts, vals |-> c.out]
        W2 == CASE fe.fault = "marker" -> Fail(W1)
                [] fe.fault = "values" -> Fail(Put(W1, Partial("DATA")))
                [] OTHER -> [Put(W1, frame) EXCEPT !.nFrame = @ + 1]
        W3 == [AddBytes(W2, n) EXCEPT !.r.m_recordCount = @ + 1]
    IN  TrackPerformance(FlushEvery(W3, fe), fe.rt)

\* RecordFrame that does not look at the stream's state first.
RecordFrameUnchecked(W0, hv, now, t, fe, pe) ==
    IF ~W0.r.m_currentFile.open THEN W0 ELSE WriteFrame(W0, hv, now, t, fe, pe)

\* RecordFrame at simulated time t.
RecordFrame(W0, hv, now, t, fe, pe) ==
    IF ~W0.r.m_currentFile.open THEN W0
    ELSE IF ~W0.r.m_currentFile.good THEN Stop(W0, hv, now, pe)
    ELSE WriteFrame(W0, hv, now, t, fe, pe)

\* What the host reports on a tick: ground speed, the engine slots' running
\* flags (one per engine the aircraft has), the on-ground indicator.
HostState(gs, eng, og) == [gs |-> gs, eng |-> eng, onGround |-> og]
HostStates ==
    { HostState(4, <<0, 0>>, 1), HostState(5, <<1, 0>>, 1), HostState(6, <<1, 1>>, 0) }

AnyEngineRunning(eng) == \E i \in 1..MAX_ENGINES : i <= Len(eng) /\ eng[i] = 1

\* The start predicate that takes a missing variable for a true condition.
CheckAutoStartGuessing(W, S, hv, h) ==
    CASE S.m_autoStartCondition = "GroundSpeed" ->
           LET st == Static(W.st, "gsStart", hv, GsName)
           IN  [W EXCEPT !.st = st, !.ret = st.gsStart = "null" \/ h.gs > S.m_autoStartThreshold]
      [] S.m_autoStartCondition = "EngineRunning" ->
           LET st == Static(W.st, "engStart", hv, EngName)
           IN  [W EXCEPT !.st = st, !.ret = st.engStart = "null" \/ AnyEngineRunning(h.eng)]
      [] S.m_autoStartCondition = "WeightOnWheels" ->
           LET st == Static(W.st, "wowStart", hv, WowName)
           IN  [W EXCEPT !.st = st, !.ret = st.wowStart = "null" \/ h.onGround = 0]
      [] OTHER -> Return(W, FALSE)

CheckAutoStartCondition(W, S, hv, h) ==
    CASE S.m_autoStartCondition = "GroundSpeed" ->
           LET st == Static(W.st, "gsStart", hv, GsName)
           IN  [W EXCEPT !.st = st, !.ret = st.gsStart = "found" /\ h.gs > S.m_autoStartThreshold]
      [] S.m_autoStartCondition = "EngineRunning" ->
           LET st == Static(W.st, "engStart", hv, EngName)
           IN  [W EXCEPT !.st = st, !.ret = st.engStart = "found" /\ AnyEngineRunning(h.eng)]
      [] S.m_autoStartCondition = "WeightOnWheels" ->
           LET st == Static(W.st, "wowStart", hv, WowName)
           IN  [W EXCEPT !.st = st, !.ret = st.wowStart = "found" /\ h.onGround = 0]
      [] OTHER -> Return(W, FALSE)

\* The stop predicate with the ground speed compared by <=.
CheckAutoStopAtOrBelow(W, S, hv, h) ==
    CASE S.m_autoStopCondition = "GroundSpeed" ->
           LET st == Static(W.st, "gsStop", hv, GsName)
           IN  [W EXCEPT !.st = st, !.ret = st.gsStop = "found" /\ h.gs <= S.m_autoStopThreshold]
      [] S.m_autoStopCondition = "EngineRunning" ->
           LET st == Static(W.st, "engStop", hv, EngName)
           IN  [W EXCEPT !.st = st, !.ret = st.engStop = "found" /\ ~AnyEngineRunning(h.eng)]
      [] S.m_autoStopCondition = "WeightOnWheels" ->
           LET st == Static(W.st, "wowStop", hv, WowName)
           IN  [W EXCEPT !.st = st, !.ret = st.wowStop = "found" /\ h.onGround = 1]
      [] OTHER -> Return(W, FALSE)

CheckAutoStopCondition(W, S, hv, h) ==
    CASE S.m_autoStopCondition = "GroundSpeed" ->
           LET st == Static(W.st, "gsStop", hv, GsName)
           IN  [W EXCEPT !.st = st, !.ret = st.gsStop = "found" /\ h.gs < S.m_autoStopThreshold]
      [] S.m_autoStopCondition = "EngineRunning" ->
           LET st == Static(W.st, "engStop", hv, EngName)
           IN  [W EXCEPT !.st = st, !.ret = st.engStop = "found" /\ ~AnyEngineRunning(h.eng)]
      [] S.m_autoStopCondition = "WeightOnWheels" ->
           LET st == Static(W.st, "wowStop", hv, WowName)
           IN  [W EXCEPT !.st = st, !.ret = st.wowStop = "found" /\ h.onGround = 1]
      [] OTHER -> Return(W, FALSE)

\* The sampling step with a strict comparison.
UpdateRecordStrict(W, S, hv, now, cur, fe, pe) ==
    IF W.r.m_isRecording /\ cur - W.r.m_lastRecordTime > S.m_recordingInterval
    THEN [RecordFrame(W, hv, now, cur, fe, pe) EXCEPT !.r.m_lastRecordTime = cur]
    ELSE W

\* The sampling step that writes one frame per interval that has passed.
UpdateRecordCatchUp(W, S, hv, now, cur, fe, pe) ==
    IF W.r.m_isRecording /\ cur - W.r.m_lastRecordTime >= 2 * S.m_recordingInterval
    THEN [RecordFrame(RecordFrame(W, hv, now, cur - S.m_recordingInterval, fe, pe),
                      hv, now, cur, fe, pe) EXCEPT !.r.m_lastRecordTime = cur]
    ELSE IF W.r.m_isRecording /\ cur - W.r.m_lastRecordTime >= S.m_recordingInterval
    THEN [RecordFrame(W, hv, now, cur, fe, pe) EXCEPT !.r.m_lastRecordTime = cur]
    ELSE W

\* The sampling step of Update (the last block).
UpdateRecord(W, S, hv, now, cur, fe, pe) ==
    IF W.r.m_isRecording /\ cur - W.r.m_lastRecordTime >= S.m_recordingInterval
    THEN [RecordFrame(W, hv, now, cur, fe, pe) EXCEPT !.r.m_lastRecordTime = cur]
    ELSE W

\* The auto-stop step that keeps the timer when the predicate is false.
UpdateAutoStopNoReset(W, S, hv, now, dt, cur, h, fe, pe) ==
    IF S.m_autoMode /\ W.r.m_isRecording
    THEN LET C0 == CheckAutoStopCondition(W, S, hv, h)
             C == [C0 EXCEPT !.stopPred = C0.ret]
         IN  IF C.stopPred
             THEN LET T == [C EXCEPT !.r.m_autoStopTimer = @ + dt]
                  IN  IF T.r.m_autoStopTimer >= S.m_autoStopDelay
                      THEN [Stop(T, hv, now, pe) EXCEPT !.autoStop = TRUE]
                      ELSE UpdateRecord(T, S, hv, now, cur, fe, pe)
             ELSE UpdateRecord(C, S, hv, now, cur, fe, pe)
    ELSE UpdateRecord(W, S, hv, now, cur, fe, pe)

\* The auto-stop step that assigns dt to the timer.
UpdateAutoStopAssigning(W, S, hv, now, dt, cur, h, fe, pe) ==
    IF S.m_autoMode /\ W.r.m_isRecording
    THEN LET C0 == CheckAutoStopCondition(W, S, hv, h)
             C == [C0 EXCEPT !.stopPred = C0.ret]
         IN  IF C.stopPred
             THEN LET T == [C EXCEPT !.r.m_autoStopTimer = dt]
                  IN  IF T.r.m_autoStopTimer >= S.m_autoStopDelay
                      THEN [Stop(T, hv, now, pe) EXCEPT !.autoStop = TRUE]
                      ELSE UpdateRecord(T, S, hv, now, cur, fe, pe)
             ELSE UpdateRecord([C EXCEPT !.r.m_autoStopTimer = 0], S, hv, now, cur, fe, pe)
    ELSE UpdateRecord(W, S, hv, now, cur, fe, pe)

\* The auto-stop step of Update; goes on to the sampling step unless it stops.
UpdateAutoStop(W, S, hv, now, dt, cur, h, fe, pe) ==
    IF S.m_autoMode /\ W.r.m_isRecording
    THEN LET C0 == CheckAutoStopCondition(W, S, hv, h)
             C == [C0 EXCEPT !.stopPred = C0.ret]
         IN  IF C.stopPred
             THEN LET T == [C EXCEPT !.r.m_autoStopTimer = @ + dt]
                  IN  IF T.r.m_autoStopTimer >= S.m_autoStopDelay
                      THEN [Stop(T, hv, now, pe) EXCEPT !.autoStop = TRUE]
                      ELSE UpdateRecord(T, S, hv, now, cur, fe, pe)
             ELSE UpdateRecord([C EXCEPT !.r.m_autoStopTimer = 0], S, hv, now, cur, fe, pe)
    ELSE UpdateRecord(W, S, hv, now, cur, fe, pe)

\* The auto-start step with a latch: no auto-start once a session has been
\* opened, until the plugin is loaded again.
UpdateAutoStartLatched(W2, S, hv, now, dt, cur, h, se, pe, fe) ==
    IF S.m_autoMode /\ ~W2.r.m_isRecording
    THEN LET C == CheckAutoStartCondition(W2, S, hv, h)
             P == [C EXCEPT !.startPred = C.ret]
             W3 == IF C.ret /\ W2.r.m_currentFilePath = 0 THEN Start(P, S, hv, now, se) ELSE P
         IN  IF ~W3.r.m_isRecording THEN W3
             ELSE UpdateAutoStop(W3, S, hv, now, dt, cur, h, fe, pe)
    ELSE UpdateAutoStop(W2, S, hv, now, dt, cur, h, fe, pe)

\* The auto-start step that calls Start() whatever the predicate says.
UpdateAutoStartAlways(W2, S, hv, now, dt, cur, h, se, pe, fe) ==
    IF S.m_autoMode /\ ~W2.r.m_isRecording
    THEN LET C == CheckAutoStartCondition(W2, S, hv, h)
             P == [C EXCEPT !.startPred = C.ret]
             W3 == Start(P, S, hv, now, se)
         IN  IF ~W3.r.m_isRecording THEN W3
             ELSE UpdateAutoStop(W3, S, hv, now, dt, cur, h, fe, pe)
    ELSE UpdateAutoStop(W2, S, hv, now, dt, cur, h, fe, pe)

\* The auto-start step of Update; goes on to the auto-stop step unless the
\* engine is still Idle.
UpdateAutoStart(W2, S, hv, now, dt, cur, h, se, pe, fe) ==
    IF S.m_autoMode /\ ~W2.r.m_isRecording
    THEN LET C == CheckAutoStartCondition(W2, S, hv, h)
             P == [C EXCEPT !.startPred = C.ret]
             W3 == IF C.ret THEN Start(P, S, hv, now, se) ELSE P
         IN  IF ~W3.r.m_isRecording THEN W3
             ELSE UpdateAutoStop(W3, S, hv, now, dt, cur, h, fe, pe)
    ELSE UpdateAutoStop(W2, S, hv, now, dt, cur, h, fe, pe)

\* Update that looks the clock up again on every call while it is missing.
UpdateFromClockRetrying(W0, S, hv, now, dt, cur, h, se, pe, fe) ==
    LET W1 == [W0 EXCEPT !.st.timeRef = IF XPLMFindDataRef(hv, TimeName) THEN "found" ELSE "null"]
    IN  IF W1.st.timeRef = "null" THEN W1
        ELSE
        UpdateAutoStart([W1 EXCEPT !.r.m_lastUpdateTime = cur],
                        S, hv, now, dt, cur, h, se, pe, fe)

\* Update past its early exit: the clock, auto-start, auto-stop, sampling.
UpdateFromClock(W0, S, hv, now, dt, cur, h, se, pe, fe) ==
    LET W1 == [W0 EXCEPT !.st = Static(@, "timeRef", hv, TimeName)]
    IN  IF W1.st.timeRef = "null" THEN W1
        ELSE
        UpdateAutoStart([W1 EXCEPT !.r.m_lastUpdateTime = cur],
                        S, hv, now, dt, cur, h, se, pe, fe)

\* Update without the early exit.
UpdateAlways(W0, S, hv, now, dt, cur, h, se, pe, fe) ==
    UpdateFromClock(W0, S, hv, now, dt, cur, h, se, pe, fe)

\* Update(deltaTime); cur is what the host's clock reads during the call.
Update(W0, S, hv, now, dt, cur, h, se, pe, fe) ==
    IF ~W0.r.m_isRecording /\ ~S.m_autoMode THEN W0
    ELSE UpdateFromClock(W0, S, hv, now, dt, cur, h, se, pe, fe)

\* ------------------------------------------------------------------------
\* Settings and the menu
\* ------------------------------------------------------------------------
\* SetDefaults, then Load: the interval, the stop delay and auto mode are
\* the configuration file's.
SettingsDefaults ==
    [m_recordingLevel |-> 3,
     m_recordingInterval |-> ConfigInterval,
     m_autoMode |-> FALSE,
     m_autoStartCondition |-> "GroundSpeed",
     m_autoStartThreshold |-> 5,
     m_autoStopCondition |-> "GroundSpeed",
     m_autoStopThreshold |-> 5,
     m_autoStopDelay |-> AutoStopDelay]

\* Menu items 20..23: 20 Hz, 10 Hz, 4 Hz, 1 Hz.
MenuInterval(item) ==
    CASE item = 20 -> 1 [] item = 21 -> 2 [] item = 22 -> 5 [] OTHER -> 20

\* Menu items 10..12: Simple, Normal, Detailed.
MenuLevel(item) == IF item = 10 THEN 1 ELSE IF item = 11 THEN 2 ELSE 3

\* ------------------------------------------------------------------------
\* State
\* ------------------------------------------------------------------------
VARIABLES
    recorder,     \* the Recorder singleton
    datarefMgr,   \* the DatarefManager singleton
    settings,     \* the Settings singleton
    statics,      \* function-local static dataref handles
    disk,         \* path -> blocks of the file
    hostVars,     \* the names the host exposes
    plugin,       \* the plugin as the host sees it: enabled, flight loops
    simTime,      \* sim/time/total_running_time_sec
    now,          \* wall clock, seconds
    nStarts,      \* Start() calls so far (bounds the run)
    nFaults,      \* faults injected so far (bounds the run)
    nMenu,        \* menu changes of settings so far (bounds the run)
    hist,         \* history of the session: see Tick
    last          \* what the last call did

vars == <<recorder, datarefMgr, settings, statics, disk, hostVars, plugin, simTime, now,
          nStarts, nFaults, nMenu, hist, last>>

\* XPluginStart and the first XPluginEnable have run: the plugin is enabled
\* and one flight loop is scheduled.  calls: the Update calls of the last
\* simulator frame.  frame: the parity of the frames run so far, kept where
\* the host's frame loop is followed (SpecPlugin, SpecLive).
Plugin0 == [enabled |-> TRUE, flightLoops |-> 1, calls |-> 0, frame |-> 0]

\* The host has run one more frame.
NextFrame(p) == [p EXCEPT !.frame = 1 - @]

Statics0 ==
    [timeRef |-> "unset", frameTimeRef |-> "unset",
     gsStart |-> "unset", engStart |-> "unset", wowStart |-> "unset",
     gsStop |-> "unset", engStop |-> "unset", wowStop |-> "unset"]

\* Hosts: one that exposes everything, one without the clock, the engine
\* array and the position.
HostChoices ==
    { AllHostNames,
      AllHostNames \ {TimeName, EngName, LatName} }

Hist0 == [trueRun |-> -1, held |-> -1, autoAll |-> FALSE, ticks |-> 0]

Last(op, W) ==
    [op |-> op, ret |-> W.ret, nStart |-> W.nStart, nStop |-> W.nStop,
     nTry |-> W.nTry, nFrame |-> W.nFrame, autoStop |-> W.autoStop,
     startPred |-> W.startPred, stopPred |-> W.stopPred, hostStart |-> "na", host |-> "na"]

World ==
    [r |-> recorder, m |-> datarefMgr, d |-> disk, st |-> statics,
     ret |-> FALSE, nStart |-> 0, nStop |-> 0, nTry |-> 0, nFrame |-> 0,
     autoStop |-> FALSE, startPred |-> "na", stopPred |-> "na"]

Init ==
    /\ hostVars \in HostChoices
    /\ plugin = Plugin0
    /\ settings \in {[SettingsDefaults EXCEPT !.m_autoMode = a] : a \in BOOLEAN}
    /\ datarefMgr = DatarefManagerInit(settings.m_recordingLevel, hostVars)
    /\ recorder = Recorder0
    /\ statics = Statics0
    /\ disk = << >>
    /\ simTime = 0
    /\ now = 1
    /\ nStarts = 0
    /\ nFaults = 0
    /\ nMenu = 0
    /\ hist = Hist0
    /\ last = Last("Init", World)

Commit(W) ==
    /\ recorder' = W.r
    /\ datarefMgr' = W.m
    /\ disk' = W.d
    /\ statics' = W.st
    /\ nStarts' = nStarts + W.nStart

\* The start predicate as the host's state decides it.
StartPredicateHolds(S, hv, h) ==
    CASE S.m_autoStartCondition = "GroundSpeed" -> GsName \in hv /\ h.gs > S.m_autoStartThreshold
      [] S.m_autoStartCondition = "EngineRunning" ->
           EngName \in hv /\ \E i \in 1..Len(h.eng) : h.eng[i] = 1
      [] S.m_autoStartCondition = "WeightOnWheels" -> WowName \in hv /\ h.onGround = 0
      [] OTHER -> FALSE

\* The stop predicate as the host's state decides it.
StopPredicateHolds(S, hv, h) ==
    CASE S.m_autoStopCondition = "GroundSpeed" -> GsName \in hv /\ h.gs < S.m_autoStopThreshold
      [] S.m_autoStopCondition = "EngineRunning" ->
           EngName \in hv /\ \A i \in 1..Len(h.eng) : h.eng[i] # 1
      [] OTHER -> WowName \in hv /\ h.onGround = 1

\* History of the current session.  autoAll: auto-mode was enabled on every
\* tick of the session.  trueRun: while autoAll, the dt summed over the
\* ticks, up to this one, on which the stop predicate held without
\* interruption (-1 when it did not hold on this one).  held: the same sum
\* whether auto-mode was enabled or not, counted up to the stop delay.  ticks (kept when count is set):
\* the ticks of the session that left the engine Recording.
HistAtStart == [trueRun |-> -1, held |-> -1, autoAll |-> TRUE, ticks |-> 0]

HistAfterStart(W) == IF W.ret THEN HistAtStart ELSE hist

HistAfterTick(W, dt, h, count) ==
    LET base == IF W.nStart > 0 /\ (W.r.m_isRecording \/ W.nStop > 0)
                THEN HistAtStart ELSE hist
        auto == base.autoAll /\ settings.m_autoMode
        holds == StopPredicateHolds(settings, hostVars, h)
    IN  IF recorder.m_isRecording \/ W.nStart > 0
        THEN [trueRun |-> IF auto /\ holds
                          THEN (IF base.trueRun < 0 THEN 0 ELSE base.trueRun) + dt
                          ELSE -1,
              held |-> IF holds
                       THEN Min((IF base.held < 0 THEN 0 ELSE base.held) + dt,
                                settings.m_autoStopDelay)
                       ELSE -1,
              autoAll |-> auto,
              ticks |-> IF count /\ W.r.m_isRecording THEN base.ticks + 1
                        ELSE IF count THEN base.ticks ELSE 0]
        ELSE hist

\* ------------------------------------------------------------------------
\* Actions
\* ------------------------------------------------------------------------
DtSet == {0, 1, 2}

\* What a run may contain: how many Start() calls, I/O faults, menu changes,
\* up to which second the wall clock runs, and which airports, frame
\* durations and float reads the host answers with; probe keeps in `last`
\* what the host answered: its state on a tick, the airport query's answer
\* on a Start() or Stop() call.
Profile(starts, faults, menu, clock, navs, rts, dts, maxSim, count, reads, probe) ==
    [maxStarts |-> starts, maxFaults |-> faults, maxMenu |-> menu,
     maxNow |-> clock, navs |-> navs, rts |-> rts, dts |-> dts,
     maxSim |-> maxSim, count |-> count, reads |-> reads, probe |-> probe]

Sessions ==
    Profile(MaxStarts, 0, 0, MaxNow, {NavNear}, {1}, DtSet, MaxSimTime, FALSE, {"finite"}, FALSE)
Faulty ==
    Profile(MaxStarts, MaxFaults, 0, 1, {NavNear}, {1}, DtSet, MaxSimTime, FALSE, {"finite"}, FALSE)
Menus == Profile(1, 0, MaxMenu, 1, {NavNear}, {1}, DtSet, MaxSimTime, FALSE, {"finite"}, FALSE)
Scenario ==
    Profile(1, 0, 0, 1, ScenarioNavs, RecordTimes, {QUARTER_SECOND},
            ScenarioTicks * QUARTER_SECOND + 1, TRUE, {"finite"}, FALSE)
Registry == Profile(1, 0, 1, 1, {NavNear}, {1}, {1}, MaxRegistryTime, FALSE, FloatReads, FALSE)
Auto == Profile(1, 0, 0, 1, {NavNear}, {1}, DtSet, MaxSimTime, FALSE, {"finite"}, TRUE)
Loads == Profile(0, 0, MaxLoads, 1, {NavNear}, {1}, {1}, 0, FALSE, {"finite"}, FALSE)
Airports == Profile(1, 0, 0, 1, NavChoices, {1}, DtSet, MaxSimTime, FALSE, {"finite"}, TRUE)

\* The environment of a call: any outcome while the fault budget lasts.
StartEnvsOf(P) ==
    {e \in StartEnvs : e.nav \in P.navs /\ (e.out = "ok" \/ nFaults < P.maxFaults)}
StopEnvsOf(P) ==
    {e \in StopEnvs : e.nav \in P.navs /\ (e.out = "ok" \/ nFaults < P.maxFaults)}
FrameEnvsOf(P) ==
    {e \in FrameEnvs : /\ e.rt \in P.rts /\ e.read \in P.reads
                        /\ (e.fault = "none" \/ nFaults < P.maxFaults)}

Faults(se, pe, fe) ==
    (IF se.out = "ok" THEN 0 ELSE 1) + (IF pe.out = "ok" THEN 0 ELSE 1)
    + (IF fe.fault = "none" THEN 0 ELSE 1)

\* Recorder::Start() called from outside.
CallStart(P) ==
    /\ nStarts < P.maxStarts
    /\ \E env \in (IF recorder.m_isRecording THEN {StartEnv0} ELSE StartEnvsOf(P)) :
         LET W == Start(World, settings, hostVars, now, env)
         IN  /\ Commit(W)
             /\ nFaults' = nFaults + Faults(env, StopEnv0, FrameEnv0)
             /\ hist' = HistAfterStart(W)
             /\ last' = [Last("Start", W) EXCEPT !.host = IF P.probe THEN env.nav ELSE "na"]
    /\ UNCHANGED <<settings, hostVars, plugin, simTime, now, nMenu>>

\* Recorder::Stop() called from outside.
CallStop(P) ==
    /\ \E env \in (IF recorder.m_isRecording THEN StopEnvsOf(P) ELSE {StopEnv0}) :
         LET W == Stop(World, hostVars, now, env)
         IN  /\ Commit(W)
             /\ nFaults' = nFaults + Faults(StartEnv0, env, FrameEnv0)
             /\ last' = [Last("Stop", W) EXCEPT !.host = IF P.probe THEN env.nav ELSE "na"]
    /\ UNCHANGED <<settings, hostVars, plugin, simTime, now, nMenu, hist>>

\* FlightLoopCallback: the host calls Update(dt) while its clock reads cur
\* and its state is h.  An environment is drawn only for the calls Update
\* makes.
TickAt(P, dt, cur, h) ==
      /\ LET U0 == Update(World, settings, hostVars, now, dt, cur, h, StartEnv0, StopEnv0, FrameEnv0)
         IN  /\ U0.nStart = 0 \/ nStarts < P.maxStarts
             /\ \E se \in (IF U0.nStart > 0 THEN StartEnvsOf(P) ELSE {StartEnv0}) :
                  LET U1 == Update(World, settings, hostVars, now, dt, cur, h, se, StopEnv0, FrameEnv0)
                  IN  \E pe \in (IF U1.nStop > 0 /\ se.out = "ok" THEN StopEnvsOf(P) ELSE {StopEnv0}),
                         fe \in (IF U1.nTry > 0 /\ se.out = "ok" THEN FrameEnvsOf(P) ELSE {FrameEnv0}) :
                        LET W == Update(World, settings, hostVars, now, dt, cur, h, se, pe, fe)
                        IN  /\ Commit(W)
                            /\ nFaults' = nFaults + Faults(se, pe, fe)
                            /\ nFaults' <= P.maxFaults
                            /\ hist' = HistAfterTick(W, dt, h, P.count)
                            /\ last' = [Last("Update", W) EXCEPT
                                          !.hostStart =
                                              IF ~recorder.m_isRecording /\ settings.m_autoMode
                                              THEN StartPredicateHolds(settings, hostVars, h)
                                              ELSE "na",
                                          !.host = IF P.probe THEN h ELSE "na"]
      /\ simTime' = cur
      /\ UNCHANGED <<settings, hostVars, plugin, now, nMenu>>

\* A tick: the host advanced the simulation and its clock by dt.
Tick(P) ==
    \E dt \in P.dts, h \in HostStates :
      /\ simTime + dt <= P.maxSim
      /\ TickAt(P, dt, simTime + dt, h)

\* MenuCallback, item 0: toggle auto mode.
MenuAutoMode(P) ==
    /\ nMenu < P.maxMenu
    /\ nMenu' = nMenu + 1
    /\ settings' = [settings EXCEPT !.m_autoMode = ~@]
    /\ last' = Last("Other", World)
    /\ UNCHANGED <<recorder, datarefMgr, statics, disk, hostVars, plugin, simTime, now,
                   nStarts, nFaults, hist>>

\* MenuCallback, item 1: Stop() when recording, else Start().
MenuStartStop(P) ==
    /\ recorder.m_isRecording \/ nStarts < P.maxStarts
    /\ \E se \in (IF recorder.m_isRecording THEN {StartEnv0} ELSE StartEnvsOf(P)),
          pe \in (IF recorder.m_isRecording THEN StopEnvsOf(P) ELSE {StopEnv0}) :
         LET W == IF recorder.m_isRecording
                  THEN Stop(World, hostVars, now, pe)
                  ELSE Start(World, settings, hostVars, now, se)
         IN  /\ Commit(W)
             /\ nFaults' = nFaults + Faults(se, pe, FrameEnv0)
             /\ hist' = IF recorder.m_isRecording THEN hist ELSE HistAfterStart(W)
             /\ last' = Last(IF recorder.m_isRecording THEN "Stop" ELSE "Start", W)
    /\ UNCHANGED <<settings, hostVars, plugin, simTime, now, nMenu>>

\* MenuCallback, items 10..12: set the level and Reload the registry.
MenuSetLevel(P) ==
    \E item \in 10..12 :
      /\ nMenu < P.maxMenu
      /\ nMenu' = nMenu + 1
      /\ settings' = [settings EXCEPT !.m_recordingLevel = MenuLevel(item)]
      /\ datarefMgr' = Reload(datarefMgr, MenuLevel(item), hostVars)
      /\ last' = Last("Reload", World)
      /\ UNCHANGED <<recorder, statics, disk, hostVars, plugin, simTime, now, nStarts,
                     nFaults, hist>>

\* MenuCallback, items 20..23: set the recording interval.
MenuSetInterval(P) ==
    \E item \in 20..23 :
      /\ nMenu < P.maxMenu
      /\ nMenu' = nMenu + 1
      /\ settings' = [settings EXCEPT !.m_recordingInterval = MenuInterval(item)]
      /\ last' = Last("Other", World)
      /\ UNCHANGED <<recorder, datarefMgr, statics, disk, hostVars, plugin, simTime, now,
                     nStarts, nFaults, hist>>

\* The wall clock moves on by a second.
ClockTick(P) ==
    /\ now < P.maxNow
    /\ now' = now + 1
    /\ last' = Last("Other", World)
    /\ UNCHANGED <<recorder, datarefMgr, settings, statics, disk, hostVars, plugin, simTime,
                   nStarts, nFaults, nMenu, hist>>

\* Sessions one after another under a healthy file system, the wall clock
\* running.
Next ==
    \/ CallStart(Sessions)
    \/ CallStop(Sessions)
    \/ Tick(Sessions)
    \/ ClockTick(Sessions)

Spec == Init /\ [][Next]_vars

\* The same calls with I/O faults.
NextFaults ==
    \/ CallStart(Faulty)
    \/ CallStop(Faulty)
    \/ Tick(Faulty)

SpecFaults == Init /\ [][NextFaults]_vars

\* One session driven from the menu.
NextMenu ==
    \/ Tick(Menus)
    \/ MenuAutoMode(Menus)
    \/ MenuStartStop(Menus)
    \/ MenuSetLevel(Menus)
    \/ MenuSetInterval(Menus)

SpecMenu == Init /\ [][NextMenu]_vars

\* One session at the Simple level sampled every quarter or every half of a
\* second, the simulation advancing by a quarter of a second per tick.
InitScenario ==
    /\ hostVars \in HostChoices
    /\ plugin = Plugin0
    /\ settings \in {[SettingsDefaults EXCEPT !.m_autoMode = a,
                                              !.m_recordingLevel = 1,
                                              !.m_recordingInterval = i] :
                      a \in BOOLEAN, i \in {QUARTER_SECOND, 2 * QUARTER_SECOND}}
    /\ datarefMgr = DatarefManagerInit(settings.m_recordingLevel, hostVars)
    /\ recorder = Recorder0
    /\ statics = Statics0
    /\ disk = << >>
    /\ simTime \in {0, 1}
    /\ now = 1
    /\ nStarts = 0
    /\ nFaults = 0
    /\ nMenu = 0
    /\ hist = Hist0
    /\ last = Last("Init", World)

NextScenario ==
    \/ CallStart(Scenario)
    \/ CallStop(Scenario)
    \/ Tick(Scenario)

SpecScenario == InitScenario /\ [][NextScenario]_vars

\* Hosts that lack any of the variables of the Normal and Detailed levels,
\* and one that lacks two of the Simple level.
RegistryHosts ==
    { AllHostNames \ X :
        X \in SUBSET ({ NormalCatalogue[i].name : i \in DOMAIN NormalCatalogue }
                      \cup { DetailedCatalogue[i].name : i \in DOMAIN DetailedCatalogue }) }
    \cup { AllHostNames \ {"sim/time/local_date_days", "sim/aircraft/view/acf_descrip"} }

\* The registry built at each level on each of those hosts, one session
\* recorded from it, the host's float reads finite or not.
InitRegistry ==
    /\ hostVars \in RegistryHosts
    /\ plugin = Plugin0
    /\ settings \in {[SettingsDefaults EXCEPT !.m_recordingLevel = l,
                                              !.m_recordingInterval = 1] :
                      l \in RecordingLevels}
    /\ datarefMgr = DatarefManagerInit(settings.m_recordingLevel, hostVars)
    /\ recorder = Recorder0
    /\ statics = Statics0
    /\ disk = << >>
    /\ simTime = 0
    /\ now = 1
    /\ nStarts = 0
    /\ nFaults = 0
    /\ nMenu = 0
    /\ hist = Hist0
    /\ last = Last("Init", World)

NextRegistry ==
    \/ CallStart(Registry)
    \/ CallStop(Registry)
    \/ Tick(Registry)
    \/ MenuSetLevel(Registry)

SpecRegistry == InitRegistry /\ [][NextRegistry]_vars

\* Auto-mode under every pair of configured conditions, on hosts that lack
\* the variable of one condition; the simulation clock is always there.
AutoHosts ==
    { AllHostNames, AllHostNames \ {GsName}, AllHostNames \ {EngName},
      AllHostNames \ {WowName} }

InitAuto ==
    /\ hostVars \in AutoHosts
    /\ plugin = Plugin0
    /\ settings \in {[SettingsDefaults EXCEPT !.m_autoMode = TRUE,
                                              !.m_autoStartCondition = a,
                                              !.m_autoStopCondition = b] :
                      a \in AutoConditions, b \in AutoConditions}
    /\ datarefMgr = DatarefManagerInit(settings.m_recordingLevel, hostVars)
    /\ recorder = Recorder0
    /\ statics = Statics0
    /\ disk = << >>
    /\ simTime = 0
    /\ now = 1
    /\ nStarts = 0
    /\ nFaults = 0
    /\ nMenu = 0
    /\ hist = Hist0
    /\ last = Last("Init", World)

NextAuto ==
    \/ CallStart(Auto)
    \/ CallStop(Auto)
    \/ Tick(Auto)

SpecAuto == InitAuto /\ [][NextAuto]_vars

\* DatarefManager::Init() called on the manager as it is, at level l.
CallInit(P) ==
    \E l \in RecordingLevels :
      /\ nMenu < P.maxMenu
      /\ nMenu' = nMenu + 1
      /\ settings' = [settings EXCEPT !.m_recordingLevel = l]
      /\ datarefMgr' = DatarefManagerInitOn(datarefMgr, l, hostVars)
      /\ last' = Last("Other", World)
      /\ UNCHANGED <<recorder, statics, disk, hostVars, plugin, simTime, now, nStarts,
                     nFaults, hist>>

\* The registry alone: Init() and Reload() calls in any order, at any level.
NextLoads ==
    \/ CallInit(Loads)
    \/ MenuSetLevel(Loads)

SpecLoads == InitRegistry /\ [][NextLoads]_vars

\* One session with every answer of the airport query at its two ends.
NextAirports ==
    \/ CallStart(Airports)
    \/ CallStop(Airports)
    \/ Tick(Airports)

SpecAirports == Init /\ [][NextAirports]_vars

\* ------------------------------------------------------------------------
\* The plugin's life cycle: the host enables and disables the plugin and
\* runs, once per simulator frame, every flight loop scheduled by it.
\* ------------------------------------------------------------------------
\* The flight loops the run may create.
MaxLoops == 3

\* XPluginEnable: creates a flight loop and schedules it for every frame;
\* the identifier is a local of the call.
XPluginEnable ==
    /\ ~plugin.enabled
    /\ plugin.flightLoops < MaxLoops
    /\ plugin' = [plugin EXCEPT !.enabled = TRUE, !.flightLoops = @ + 1, !.calls = 0]
    /\ last' = Last("Enable", World)
    /\ UNCHANGED <<recorder, datarefMgr, settings, statics, disk, hostVars, simTime, now,
                   nStarts, nFaults, nMenu, hist>>

\* XPluginDisable: Stop() when recording; the flight loops stay scheduled.
XPluginDisable ==
    /\ plugin.enabled
    /\ LET W == IF recorder.m_isRecording THEN Stop(World, hostVars, now, StopEnv0) ELSE World
       IN  /\ Commit(W)
           /\ last' = Last("Disable", W)
    /\ plugin' = [plugin EXCEPT !.enabled = FALSE, !.calls = 0]
    /\ UNCHANGED <<settings, hostVars, simTime, now, nFaults, nMenu, hist>>

\* Update(dt) called n times in a row at the same simulation time.
RECURSIVE UpdateTimes(_, _, _, _, _, _, _, _)
UpdateTimes(W, n, S, hv, t, dt, cur, h) ==
    IF n = 0 THEN W
    ELSE UpdateTimes(Update(W, S, hv, t, dt, cur, h, StartEnv0, StopEnv0, FrameEnv0),
                     n - 1, S, hv, t, dt, cur, h)

\* A simulator frame of dt: the host calls FlightLoopCallback once for every
\* scheduled flight loop of the enabled plugin, each with the frame's dt.
Frame(P) ==
    \E dt \in P.dts, h \in HostStates :
      /\ plugin.enabled
      /\ simTime + dt <= P.maxSim
      /\ LET W == UpdateTimes(World, plugin.flightLoops, settings, hostVars, now, dt,
                              simTime + dt, h)
         IN  /\ nStarts + W.nStart <= P.maxStarts
             /\ Commit(W)
             /\ hist' = HistAfterTick(W, dt, h, P.count)
             /\ last' = Last("Frame", W)
      /\ plugin' = NextFrame([plugin EXCEPT !.calls = plugin.flightLoops])
      /\ simTime' = simTime + dt
      /\ UNCHANGED <<settings, hostVars, now, nFaults, nMenu>>

NextPlugin ==
    \/ XPluginEnable
    \/ XPluginDisable
    \/ Frame(Sessions)
    \/ plugin.enabled /\ CallStart(Sessions)

SpecPlugin == Init /\ [][NextPlugin]_vars

\* ------------------------------------------------------------------------
\* Sessions across a change of vehicle: the variables that exist depend on
\* the vehicle loaded, and Start() and Stop() look the position variables up
\* on every call.
\* ------------------------------------------------------------------------
Endpoints ==
    Profile(MaxStarts, 0, 0, 1, {NavNear, NavFar}, {1}, {ConfigInterval}, MaxSimTime, FALSE,
            {"finite"}, TRUE)

\* The user loads another vehicle: another set of variables exists.
VehicleChange ==
    /\ hostVars' \in HostChoices \ {hostVars}
    /\ last' = Last("Other", World)
    /\ UNCHANGED <<recorder, datarefMgr, settings, statics, disk, plugin, simTime, now,
                   nStarts, nFaults, nMenu, hist>>

NextEndpoints ==
    \/ CallStart(Endpoints)
    \/ CallStop(Endpoints)
    \/ Tick(Endpoints)
    \/ VehicleChange

SpecEndpoints == Init /\ [][NextEndpoints]_vars

\* ------------------------------------------------------------------------
\* Ticks that keep coming.  While the engine is Recording with auto-mode
\* enabled every tick has dt >= 1 and a host state of which the stop
\* predicate is true.  The clock is followed up to MaxSimTime; past it the
\* clock's advance per tick is below the model's resolution.
\* ------------------------------------------------------------------------
\* What a call did, without what the predicates said.
Plain(l) == [l EXCEPT !.startPred = "na", !.stopPred = "na"]

\* The healthy environment of the calls, an airport in range.
LiveStartEnv == [out |-> "ok", nav |-> NavNear]
LiveStopEnv == [out |-> "ok", nav |-> NavNear]

\* Recorder::Start() called from outside.
LiveStart ==
    /\ nStarts < MaxStarts
    /\ LET W == Start(World, settings, hostVars, now, LiveStartEnv)
       IN  /\ Commit(W)
           /\ last' = Plain(Last("Start", W))
    /\ UNCHANGED <<settings, hostVars, plugin, simTime, now, nFaults, nMenu, hist>>

\* Recorder::Stop() called from outside.
LiveStop ==
    /\ LET W == Stop(World, hostVars, now, LiveStopEnv)
       IN  /\ Commit(W)
           /\ last' = Plain(Last("Stop", W))
    /\ UNCHANGED <<settings, hostVars, plugin, simTime, now, nFaults, nMenu, hist>>

\* FlightLoopCallback: Update(dt) with the host in state h.
TickLive ==
    \E dt \in DtSet, h \in HostStates :
      /\ (recorder.m_isRecording /\ settings.m_autoMode)
            => (dt >= 1 /\ StopPredicateHolds(settings, hostVars, h))
      /\ LET W == Update(World, settings, hostVars, now, dt, Min(simTime + dt, MaxSimTime),
                         h, LiveStartEnv, LiveStopEnv, FrameEnv0)
         IN  /\ nStarts + W.nStart <= MaxStarts
             /\ Commit(W)
             /\ last' = Plain(Last("Update", W))
      /\ simTime' = Min(simTime + dt, MaxSimTime)
      /\ plugin' = NextFrame(plugin)
      /\ UNCHANGED <<settings, hostVars, now, nFaults, nMenu, hist>>

NextLive ==
    \/ LiveStart
    \/ LiveStop
    \/ TickLive

\* A frame runs while the engine is Recording.
RecordingFrame == recorder.m_isRecording /\ plugin' = NextFrame(plugin)

\* The host calls the flight loop on every frame for as long as it runs:
\* ticks keep coming.
SpecLive == Init /\ [][NextLive]_vars /\ WF_plugin(RecordingFrame)

\* ------------------------------------------------------------------------
\* The binary writers, on concrete values
\*
\* A 32-bit pattern is the pair <<high 16 bits, low 16 bits>>; an int32 is
\* an integer, a float its bit pattern (memcpy), a text a sequence of bytes.
\* ------------------------------------------------------------------------
\* static_cast<uint32_t>(int32_t).
ToUInt32(v) == <<(v \div 65536) % 65536, v % 65536>>

WriteUInt8(value) == <<value % 256>>

\* The four bytes with the most significant first.
WriteUInt32BigEndian(value) ==
    << (value[1] \div 256) % 256, value[1] % 256, (value[2] \div 256) % 256, value[2] % 256 >>

\* value & 0xFF, (value >> 8) & 0xFF, (value >> 16) & 0xFF, (value >> 24) & 0xFF.
WriteUInt32(value) ==
    << value[2] % 256, (value[2] \div 256) % 256, value[1] % 256, (value[1] \div 256) % 256 >>

WriteInt32(value) == WriteUInt32(ToUInt32(value))

WriteFloat(value) == WriteUInt32(value)

\* The length byte, then at most 255 bytes of the text.
WriteString(str) ==
    LET len == Min(Len(str), MAX_STRING_LEN)
    IN  WriteUInt8(len) \o SubSeq(str, 1, len)

\* The value part of a frame: RecordFrame's loop with the writers above.
WriteEntry(e) ==
    CASE e.kind = "f" -> WriteFloat(e.v)
      [] e.kind = "i" -> WriteInt32(e.v)
      [] OTHER -> WriteString(e.v)

RECURSIVE WriteEntries(_, _)
WriteEntries(es, k) ==
    IF k > Len(es) THEN << >> ELSE WriteEntry(es[k]) \o WriteEntries(es, k + 1)

\* Values a host can return: bit patterns of 0.0, 1.0, -0.0, a NaN, an
\* arbitrary pattern, all ones; the extremes of int32; texts of up to 256
\* bytes and of a whole read buffer.
FloatSamples ==
    { <<0, 0>>, <<16256, 0>>, <<32768, 0>>, <<32704, 1>>, <<4660, 22136>>, <<65535, 65535>> }
IntSamples == { -2147483647 - 1, -65537, -1, 0, 1, 258, 2147483647 }
TextOf(n) == [i \in 1..n |-> 1 + ((i * 7) % 255)]
TextSamples ==
    { TextOf(0), TextOf(1), TextOf(12), TextOf(255), TextOf(256), TextOf(STRING_BUFFER) }

\* The text read of ReadCurrentValues: XPLMGetDatab copies at most
\* sizeof(buffer) - 1 bytes of the host's text and returns how many (0 when
\* the read fails); the std::string is built from the buffer.
ReadString(text, ok) ==
    LET len == IF ok THEN Min(Len(text), STRING_BUFFER - 1) ELSE 0
    IN  IF len > 0 /\ len <= STRING_BUFFER - 1 THEN SubSeq(text, 1, len) ELSE << >>

\* A snapshot of the Simple-level registry with concrete values, and the
\* bytes RecordFrame writes for it.
InitCodec ==
    /\ hostVars = AllHostNames
    /\ plugin = Plugin0
    /\ settings = [SettingsDefaults EXCEPT !.m_recordingLevel = 1]
    /\ datarefMgr = DatarefManagerInit(settings.m_recordingLevel, hostVars)
    /\ recorder = Recorder0
    /\ statics = Statics0
    /\ disk = << >>
    /\ simTime = 0
    /\ now = 1
    /\ nStarts = 0
    /\ nFaults = 0
    /\ nMenu = 0
    /\ hist = Hist0
    /\ last = [op |-> "Init", bytes |-> << >>]

\* ReadCurrentValues with the host returning f, i and the text str (ok:
\* the text read succeeds), then the value loop of RecordFrame.
EncodeSnapshot ==
    /\ \E f \in FloatSamples, i \in IntSamples, str \in TextSamples, ok \in BOOLEAN :
         LET vals == [floats |-> <<f>>, ints |-> <<i>>, strings |-> <<ReadString(str, ok)>>]
             c == FrameValues(Cursor0, datarefMgr.m_datarefs, 1, vals)
         IN  /\ datarefMgr' = [datarefMgr EXCEPT !.vals = vals]
             /\ last' = [op |-> "Encode", bytes |-> WriteEntries(c.out, 1),
                         text |-> str, ok |-> ok]
    /\ UNCHANGED <<recorder, settings, statics, disk, hostVars, plugin, simTime, now,
                   nStarts, nFaults, nMenu, hist>>

NextCodec == EncodeSnapshot

SpecCodec == InitCodec /\ [][NextCodec]_vars

\* ------------------------------------------------------------------------
\* Properties
\* ------------------------------------------------------------------------
\* The step is a call of Start() / of Stop() from outside, a tick.
IsStartCall == last'.op = "Start"
IsStopCall == last'.op = "Stop"
IsTick == last'.op = "Update"

\* The DATA frames of a file.
DataFrames(f) == {i \in DOMAIN f : f[i].b = "DATA"}
NumData(f) == Cardinality(DataFrames(f))

\* The file of the current session.
SessionFile == disk[recorder.m_currentFile.path]

\* C1: a Start() call made while the engine is Recording returns failure and
\* changes nothing: the Recorder object (the open file, the path, the record
\* count, the bytes-written counter, the auto-stop timer, the endpoints), the
\* files on disk, the registry and the settings are as before the call.
C1_StartWhileRecording ==
    [][ (IsStartCall /\ recorder.m_isRecording) =>
            /\ ~last'.ret
            /\ recorder' = recorder
            /\ disk' = disk
            /\ datarefMgr' = datarefMgr
            /\ statics' = statics
            /\ settings' = settings ]_vars

\* A Start() call has just been refused in a session that has frames.
C1_Witness ==
    /\ last.op = "Start" /\ ~last.ret /\ last.nStart = 0
    /\ recorder.m_isRecording
    /\ recorder.m_recordCount > 0

\* C2: Stop() called in Idle returns failure and changes no state; Stop() in
\* Recording, from outside or from within a tick, returns success and leaves
\* the engine Idle with the file handle released, whichever of the flush,
\* the header patch, the footer write and the close fails or throws.
C2_StopAlwaysStops ==
    [][ /\ (IsStopCall /\ ~recorder.m_isRecording) =>
               /\ ~last'.ret
               /\ recorder' = recorder
               /\ disk' = disk
               /\ datarefMgr' = datarefMgr
               /\ statics' = statics
        /\ (IsStopCall /\ recorder.m_isRecording) =>
               /\ last'.ret
               /\ ~recorder'.m_isRecording
               /\ recorder'.m_currentFile = NullFile
        /\ (IsTick /\ last'.nStop > 0) =>
               /\ ~recorder'.m_isRecording
               /\ recorder'.m_currentFile = NullFile ]_vars

\* A Stop() in Recording has just met a fault and returned success.
C2_Witness ==
    /\ last.op = "Stop" /\ last.ret /\ last.nStop = 1
    /\ nFaults = 1
    /\ \E p \in DOMAIN disk :
         Len(disk[p]) > 0 /\ disk[p][Len(disk[p])].b # "ENDR"

\* C3: between calls the engine holds an open file handle if and only if
\* IsRecording() is true, and the handle it holds is the one of the current
\* file path: there is no second one.
C3_HandleIffRecording ==
    /\ recorder.m_currentFile.open <=> recorder.m_isRecording
    /\ recorder.m_currentFile.open =>
          /\ recorder.m_currentFile.path = recorder.m_currentFilePath
          /\ recorder.m_currentFile.path \in DOMAIN disk

\* The second Start() of the run opened a session after one had failed or
\* ended, and a tick left its stream in a failed state.
C3_Witness ==
    /\ nStarts = 2
    /\ recorder.m_isRecording
    /\ recorder.m_currentFile.open
    /\ ~recorder.m_currentFile.good

\* The step made a Start() that met a fault: the destination could not be
\* opened, or the header write failed or threw.
StartFaulted ==
    /\ last'.nStart > 0 /\ last'.nStop = 0 /\ last'.nTry = 0
    /\ nFaults' > nFaults

\* C4: when the destination file cannot be opened or the header write
\* fails, Start() returns failure, IsRecording() stays false and no file
\* handle remains open.
C4_FailedStartIsClean ==
    [][ StartFaulted =>
            /\ IsStartCall => ~last'.ret
            /\ ~recorder'.m_isRecording
            /\ recorder'.m_currentFile = NullFile ]_vars

\* A Start() has just failed after it had opened the file and written a
\* part of the header.
C4_Witness ==
    /\ last.op = "Start" /\ ~last.ret /\ last.nStart = 1
    /\ ~recorder.m_isRecording
    /\ \E p \in DOMAIN disk : disk[p] = <<Partial("XFDR")>>

\* C5: a Start() that fails commits no state: the current file path, the
\* bytes-written counter, the record count and the stored departure endpoint
\* are what they were before the call.
C5_FailedStartCommitsNothing ==
    [][ (IsStartCall /\ ~recorder.m_isRecording /\ ~last'.ret) =>
            /\ recorder'.m_currentFilePath = recorder.m_currentFilePath
            /\ recorder'.m_bytesWritten = recorder.m_bytesWritten
            /\ recorder'.m_recordCount = recorder.m_recordCount
            /\ recorder'.m_departureAirport = recorder.m_departureAirport ]_vars

\* The layout a header's variable table gives a frame: for each entry
\* max(arity, 1) values of its kind, by ascending index.
KindOfCode(c) == IF c = 0 THEN "f" ELSE IF c = 1 THEN "i" ELSE "s"
Slot(k, n, i) == [kind |-> k, name |-> n, index |-> i]

RECURSIVE TableSlots(_, _, _)
TableSlots(table, k, acc) ==
    IF k > Len(table) THEN acc
    ELSE TableSlots(table, k + 1,
             acc \o [i \in 1..(IF table[k].arity > 0 THEN table[k].arity ELSE 1) |->
                       Slot(KindOfCode(table[k].kindCode), table[k].name, i - 1)])

\* The layout a frame has: the kind each value was written with and the
\* variable and index it was read from.
FrameSlots(frame) ==
    [i \in DOMAIN frame.vals |->
       Slot(frame.vals[i].kind, frame.vals[i].v[1], frame.vals[i].v[2])]

\* C6: every DATA frame of a file has the layout given by the variable
\* table of that file's header, whatever was done since Start, a change of
\* the detail level (Reload) in mid-session included.
C6_FramesMatchHeader ==
    \A p \in DOMAIN disk :
      \A i \in DataFrames(disk[p]) :
        disk[p][1].b = "XFDR" =>
          FrameSlots(disk[p][i]) = TableSlots(disk[p][1].table, 1, << >>)

\* The frame a tick has just appended to the session's file.
NewFrame == disk'[recorder'.m_currentFile.path][Len(disk'[recorder'.m_currentFile.path])]

\* C7: when the registry at the time of a frame is the one the header's
\* table was written from, the values of the frame are in the order of the
\* table: definitions in registration order, an array's entries by
\* ascending index, each value read from the host on this tick.
C7_FrameOrder ==
    [][ ( /\ IsTick /\ last'.nFrame = 1 /\ recorder'.m_isRecording
          /\ HeaderTable(datarefMgr.m_datarefs, 1, << >>)
               = disk'[recorder'.m_currentFile.path][1].table ) =>
            /\ NewFrame.b = "DATA"
            /\ FrameSlots(NewFrame)
                 = TableSlots(disk'[recorder'.m_currentFile.path][1].table, 1, << >>)
            /\ \A i \in DOMAIN NewFrame.vals : NewFrame.vals[i].v[3] = simTime' ]_vars

\* A frame has just been written, after a change of level before Start,
\* that holds text, integers and array entries beyond the first.
C7_Witness ==
    /\ last.op = "Update" /\ last.nFrame = 1 /\ recorder.m_isRecording
    /\ nMenu > 0
    /\ LET f == SessionFile[Len(SessionFile)]
       IN  /\ f.b = "DATA"
           /\ \E i \in DOMAIN f.vals : f.vals[i].kind = "s"
           /\ \E i \in DOMAIN f.vals : f.vals[i].kind = "i" /\ f.vals[i].v[2] > 1
           /\ \E i \in DOMAIN f.vals : f.vals[i].kind = "f" /\ f.vals[i].v[2] > 1

\* C8: at every point of a session the record counter is the number of DATA
\* frames written to the session's file since Start, and the recordCount of
\* a footer is the number of DATA frames of its file.
C8_CounterIsFrameCount ==
    /\ recorder.m_isRecording => recorder.m_recordCount = NumData(SessionFile)
    /\ \A p \in DOMAIN disk :
         \A i \in DOMAIN disk[p] :
           disk[p][i].b = "ENDR" => disk[p][i].recordCount = NumData(disk[p])

\* What a tick that leaves the engine Recording does at its sampling step:
\* a frame when the simulated time since the last sample has reached the
\* interval, and then the last sample time is this tick's time; else nothing.
C9_TickSamples ==
    (IsTick /\ recorder'.m_isRecording /\ statics'.timeRef = "found") =>
        LET started == last'.nStart > 0
            lastSample == IF started THEN 0 ELSE recorder.m_lastRecordTime
            before == IF started THEN 0 ELSE NumData(SessionFile)
            after == NumData(disk'[recorder'.m_currentFile.path])
        IN  IF simTime' - lastSample >= settings.m_recordingInterval
            THEN /\ after = before + 1
                 /\ recorder'.m_recordCount = after
                 /\ recorder'.m_lastRecordTime = simTime'
            ELSE /\ after = before
                 /\ recorder'.m_lastRecordTime = lastSample

\* With the interval a quarter of a second and every tick advancing the
\* simulation by that much, a session has as many DATA frames as ticks it
\* was Recording through, and the footer carries that number.
C9_FramePerTick ==
    (settings.m_recordingInterval = QUARTER_SECOND /\ TimeName \in hostVars) =>
        /\ recorder.m_isRecording =>
              /\ NumData(SessionFile) = hist.ticks
              /\ recorder.m_recordCount = hist.ticks
        /\ \A p \in DOMAIN disk :
             \A i \in DOMAIN disk[p] :
               disk[p][i].b = "ENDR" =>
                 /\ disk[p][i].recordCount = hist.ticks
                 /\ NumData(disk[p]) = hist.ticks

\* C9: while Recording, a tick writes a frame exactly when currentSimTime -
\* lastSampleTime >= interval and then sets lastSampleTime to currentSimTime;
\* hence with the interval and every tick's advance a quarter of a second,
\* ten ticks while Recording give ten DATA frames and a footer recordCount
\* of ten.  (A tick on which the time variable is missing, or which stops
\* the session before the sampling step, does not reach that step.)
C9_Sampling == [][C9_TickSamples]_vars /\ []C9_FramePerTick

\* A session of ten quarter-second ticks has been stopped: ten DATA frames
\* and a footer that says ten.
C9_Witness ==
    /\ ~recorder.m_isRecording
    /\ settings.m_recordingInterval = QUARTER_SECOND
    /\ hist.ticks = ScenarioTicks
    /\ \E p \in DOMAIN disk :
         /\ NumData(disk[p]) = ScenarioTicks
         /\ disk[p][Len(disk[p])].b = "ENDR"
         /\ disk[p][Len(disk[p])].recordCount = ScenarioTicks

C11_AutoStopOnlySustained ==
    [][ (IsTick /\ last'.autoStop) => hist'.held >= settings.m_autoStopDelay ]_vars

\* The step made a Stop() that returned success: a call from outside, or
\* the Stop() a tick makes (confirmed auto-stop, stream found in a bad state).
StopSucceeded == (IsStopCall /\ last'.ret) \/ (IsTick /\ last'.nStop > 0)

\* The file of the session the step stopped.
StoppedFile ==
    disk'[IF recorder.m_isRecording THEN recorder.m_currentFile.path
          ELSE recorder'.m_currentFilePath]

\* C12: after a Stop() that returns success (manual, confirmed auto-stop or
\* the automatic one after a write fault) the closed file ends with the
\* footer, and the footer is its last block only.
C12_StoppedFileEndsWithFooter ==
    [][ StopSucceeded =>
            /\ Len(StoppedFile) > 0
            /\ StoppedFile[Len(StoppedFile)].b = "ENDR"
            /\ \A i \in 1..(Len(StoppedFile) - 1) : StoppedFile[i].b # "ENDR" ]_vars

C14_OwnFilePerSession ==
    [][ (last'.nStart > 0 /\ ~recorder.m_isRecording /\ recorder'.m_currentFile.open) =>
            recorder'.m_currentFile.path \notin DOMAIN disk ]_vars

\* C15: the startTimestamp in the header of a session a Start() has just
\* created is the wall-clock time of that Start(), which is also the start
\* time the engine keeps for the session (file name, GetDuration).
C15_HeaderStartTimestamp ==
    [][ (last'.nStart > 0 /\ ~recorder.m_isRecording /\ recorder'.m_currentFile.open) =>
            /\ recorder'.m_recordingStartTime = now
            /\ disk'[recorder'.m_currentFile.path][1].startTs = now ]_vars

\* The names of the variable set a build at a level gives on a host.
RegistryNames(level, hv) ==
    LET defs == LoadDatarefs(<< >>, level, hv)
    IN  { defs[i].name : i \in DOMAIN defs }

\* C16: on the host of the run, for all levels L1 < L2 the variable set
\* built for L2 contains the one built for L1 and is not equal to it.
C16_LevelsStrictlyGrow ==
    \A l1, l2 \in RecordingLevels :
       l1 < l2 =>
          /\ RegistryNames(l1, hostVars) \subseteq RegistryNames(l2, hostVars)
          /\ RegistryNames(l1, hostVars) # RegistryNames(l2, hostVars)

\* The definitions of a level in catalogue order.
CatalogueOf(level) ==
    BasicCatalogue \o (IF level >= 2 THEN NormalCatalogue ELSE << >>)
                   \o (IF level >= 3 THEN DetailedCatalogue ELSE << >>)

\* C17: the registry holds every definition of the selected level, in
\* catalogue order with its kind and arity, the handle absent exactly when
\* the host does not expose the name; the header of a session started from
\* it lists them all, and a snapshot holds a zero value in every slot of a
\* definition whose handle is absent.
C17_AbsentDefinitionsRecorded ==
    LET cat == CatalogueOf(settings.m_recordingLevel)
        defs == datarefMgr.m_datarefs
    IN  /\ Len(defs) = Len(cat)
        /\ \A k \in DOMAIN cat :
              k \in DOMAIN defs =>
                 /\ defs[k].name = cat[k].name
                 /\ defs[k].type = cat[k].type
                 /\ defs[k].arraySize = cat[k].arraySize
                 /\ defs[k].ref = XPLMFindDataRef(hostVars, cat[k].name)
        /\ (recorder.m_isRecording /\ nMenu = 0) =>
              Len(SessionFile[1].table) = Len(cat)
        /\ \A p \in DOMAIN disk :
              \A i \in DataFrames(disk[p]) :
                \A j \in DOMAIN disk[p][i].vals :
                   disk[p][i].vals[j].v[1] \notin hostVars =>
                      disk[p][i].vals[j].v \in {ZeroFloat, ZeroInt, EmptyString}

\* C18: no float slot of the snapshot, scalar or array element, holds NaN or
\* an infinity, and no float written to a frame is one.
C18_FloatsAreFinite ==
    /\ \A i \in DOMAIN datarefMgr.vals.floats : IsFinite(datarefMgr.vals.floats[i])
    /\ \A p \in DOMAIN disk :
          \A i \in DataFrames(disk[p]) :
            \A j \in DOMAIN disk[p][i].vals :
               disk[p][i].vals[j].kind = "f" => IsFinite(disk[p][i].vals[j].v)

\* C19: between the calls of a session the blocks written since the last
\* explicit flush are the frames written since the last tenth one (the
\* header was flushed, and each tenth frame), fewer than the flush interval;
\* and the footer written at this point would leave nothing unflushed.
C19_FlushPolicy ==
    recorder.m_isRecording =>
        /\ recorder.m_currentFile.pending < FLUSH_INTERVAL
        /\ recorder.m_currentFile.pending = NumData(SessionFile) % FLUSH_INTERVAL
        /\ WriteFooter(World, now, "ok").r.m_currentFile.pending = 0

\* The tenth frame of a session has just been written and flushed.
C19_Witness ==
    /\ recorder.m_isRecording
    /\ last.op = "Update" /\ last.nFrame = 1
    /\ NumData(SessionFile) = FLUSH_INTERVAL
    /\ recorder.m_currentFile.pending = 0

\* The reader: a 32-bit pattern from four bytes, least significant first.
ReadUInt32(bytes, at) ==
    << bytes[at + 3] * 256 + bytes[at + 2], bytes[at + 1] * 256 + bytes[at] >>

\* The int32 a 32-bit pattern stands for (two's complement).
ToInt32(u) ==
    IF u[1] >= 32768 THEN (u[1] - 65536) * 65536 + u[2] ELSE u[1] * 65536 + u[2]

\* The reader: the values of a frame, decoded slot by slot as the header's
\* table says.
RECURSIVE DecodeValues(_, _, _, _, _)
DecodeValues(bytes, at, slots, k, acc) ==
    IF k > Len(slots) THEN acc
    ELSE CASE slots[k].kind = "f" ->
                DecodeValues(bytes, at + 4, slots, k + 1, Append(acc, ReadUInt32(bytes, at)))
           [] slots[k].kind = "i" ->
                DecodeValues(bytes, at + 4, slots, k + 1,
                             Append(acc, ToInt32(ReadUInt32(bytes, at))))
           [] OTHER ->
                DecodeValues(bytes, at + 1 + bytes[at], slots, k + 1,
                             Append(acc, SubSeq(bytes, at + 1, at + bytes[at])))

\* The snapshot in the order of the registry.
SnapshotValues ==
    LET c == FrameValues(Cursor0, datarefMgr.m_datarefs, 1, datarefMgr.vals)
    IN  [i \in DOMAIN c.out |-> c.out[i].v]

\* C20: the value bytes of a frame, decoded with the header's kind/arity
\* table reading integers least significant byte first, are the snapshot:
\* every float's 32-bit pattern, every int32, every text of at most 255
\* bytes.
C20_RoundTrip ==
    ( /\ last.op = "Encode"
      /\ \A i \in DOMAIN datarefMgr.vals.strings :
            Len(datarefMgr.vals.strings[i]) <= MAX_STRING_LEN ) =>
        DecodeValues(last.bytes, 1,
                     TableSlots(HeaderTable(datarefMgr.m_datarefs, 1, << >>), 1, << >>),
                     1, << >>) = SnapshotValues

\* A snapshot with a negative int, a NaN pattern and a text of 255 bytes has
\* been encoded.
C20_Witness ==
    /\ last.op = "Encode"
    /\ datarefMgr.vals.floats = << <<32704, 1>> >>
    /\ datarefMgr.vals.ints = << -65537 >>
    /\ Len(datarefMgr.vals.strings[1]) = MAX_STRING_LEN
    /\ Len(last.bytes) = 4 + 4 + 1 + MAX_STRING_LEN

\* C21: a tick of a Recording session whose stream is in a failed state, on
\* which a frame is due (the time variable is found, the interval has
\* elapsed, auto-stop did not fire), makes one Stop() and no write: the
\* engine is Idle after the tick, the file has no new DATA frame and the
\* record count is what it was.
C21_FailedStreamStops ==
    [][ ( /\ IsTick
          /\ recorder.m_isRecording /\ ~recorder.m_currentFile.good
          /\ statics'.timeRef = "found"
          /\ simTime' - recorder.m_lastRecordTime >= settings.m_recordingInterval
          /\ ~last'.autoStop ) =>
            /\ last'.nStop = 1 /\ last'.nTry = 0 /\ last'.nFrame = 0
            /\ ~recorder'.m_isRecording
            /\ recorder'.m_currentFile = NullFile
            /\ NumData(disk'[recorder.m_currentFile.path]) = NumData(SessionFile)
            /\ recorder'.m_recordCount = recorder.m_recordCount ]_vars

\* A tick has just stopped a session because the stream had failed in the
\* middle of a frame; auto-mode is off, the counter had counted that frame.
C21_Witness ==
    /\ last.op = "Update" /\ last.nStop = 1 /\ ~last.autoStop
    /\ ~settings.m_autoMode
    /\ ~recorder.m_isRecording
    /\ recorder.m_recordCount = 1
    /\ \E p \in DOMAIN disk : disk[p][Len(disk[p])] = Partial("DATA")

\* C22: a tick in Idle with auto-mode disabled changes no engine state: the
\* recorder's fields (counters, timers, sample and update times, the stream),
\* the files, the registry's snapshot and the cached handles are what they
\* were, whatever dt and the host's state; neither Start nor Stop nor a frame
\* is attempted.
C22_IdleTickIsNoOp ==
    [][ (IsTick /\ ~recorder.m_isRecording /\ ~settings.m_autoMode) =>
            /\ recorder' = recorder
            /\ disk' = disk
            /\ datarefMgr' = datarefMgr
            /\ statics' = statics
            /\ last'.nStart = 0 /\ last'.nStop = 0 /\ last'.nTry = 0 ]_vars

\* A tick came in Idle with auto-mode disabled after a session had written a
\* frame and the simulation's clock had moved past the last time Update saw.
C22_Witness ==
    /\ last.op = "Update" /\ last.nStop = 0
    /\ ~settings.m_autoMode /\ ~recorder.m_isRecording
    /\ recorder.m_recordCount > 0
    /\ simTime > recorder.m_lastUpdateTime

\* The step is a tick that found the engine Idle with auto-mode enabled.
IsIdleAutoTick == IsTick /\ ~recorder.m_isRecording /\ settings.m_autoMode

\* The tick left the engine Idle and attempted no frame.
StillIdleNoFrame == ~recorder'.m_isRecording /\ last'.nTry = 0 /\ last'.nFrame = 0

\* C23 as stated: on a tick in Idle with auto-mode enabled, Start() is
\* attempted if and only if the auto-start predicate is true of the host's
\* state; if the predicate is false or Start() fails, the engine is still
\* Idle after the tick and no frame was written.
C23_AutoStartIffPredicate ==
    [][ IsIdleAutoTick =>
            /\ (last'.nStart > 0) <=> (last'.hostStart = TRUE)
            /\ (last'.hostStart = FALSE \/ StartFaulted) => StillIdleNoFrame ]_vars

\* C23, amended: the same when the simulation clock variable is found; when
\* it is missing the tick returns before it evaluates the predicate, Start()
\* is not attempted and the engine is still Idle.
C23_AutoStartOnTick ==
    [][ IsIdleAutoTick =>
            /\ statics'.timeRef = "found" =>
                   /\ (last'.nStart = 1) <=> (last'.hostStart = TRUE)
                   /\ last'.nStart <= 1
                   /\ last'.startPred = last'.hostStart
            /\ statics'.timeRef # "found" =>
                   /\ last'.nStart = 0 /\ last'.startPred = "na"
                   /\ StillIdleNoFrame
            /\ (last'.hostStart = FALSE \/ StartFaulted) => StillIdleNoFrame ]_vars

\* A tick in Idle with auto-mode enabled has just found the predicate true
\* and made a Start() that failed after it had opened the file.
C23_Witness ==
    /\ last.op = "Update" /\ last.nStart = 1 /\ last.hostStart = TRUE
    /\ settings.m_autoMode /\ ~recorder.m_isRecording
    /\ nFaults = 1
    /\ \E p \in DOMAIN disk : disk[p] = <<Partial("XFDR")>>

\* The host variable a configured auto condition reads.
ConditionVar(c) ==
    CASE c = "GroundSpeed" -> GsName
      [] c = "EngineRunning" -> EngName
      [] OTHER -> WowName

\* The step is a tick that evaluated the auto-start predicate: Idle,
\* auto-mode enabled, the clock read.
StartEvaluated == IsIdleAutoTick /\ statics'.timeRef = "found"

\* The step is a tick that evaluated the auto-stop predicate: auto-mode
\* enabled, the clock read, Recording before the tick or started by it.
StopEvaluated ==
    /\ IsTick /\ settings.m_autoMode /\ statics'.timeRef = "found"
    /\ \/ recorder.m_isRecording
       \/ last'.nStart = 1 /\ (recorder'.m_isRecording \/ last'.nStop > 0)

\* C24: when the host variable that the configured auto condition reads is
\* missing, the predicate is false on every tick that evaluates it: with
\* the start variable missing no tick starts a session; with the stop
\* variable missing no tick stops one, and the confirmation timer stays
\* at zero.
C24_MissingVariableIsFalse ==
    [][ /\ (StartEvaluated /\ ConditionVar(settings.m_autoStartCondition) \notin hostVars) =>
               ~last'.startPred
        /\ (IsTick /\ ~recorder.m_isRecording
               /\ ConditionVar(settings.m_autoStartCondition) \notin hostVars) =>
               last'.nStart = 0 /\ ~recorder'.m_isRecording
        /\ (StopEvaluated /\ ConditionVar(settings.m_autoStopCondition) \notin hostVars) =>
               ~last'.stopPred
        /\ (IsTick /\ ConditionVar(settings.m_autoStopCondition) \notin hostVars) =>
               /\ last'.nStop = 0 /\ ~last'.autoStop
               /\ recorder'.m_isRecording => recorder'.m_autoStopTimer = 0 ]_vars

\* A session started by hand has run to the end of the simulated time with
\* auto-mode enabled, on a host without the engine array that the stop
\* condition reads, while the host reported no engine running; and the
\* start condition, which reads the same array, had started nothing before.
C24_Witness ==
    /\ last.op = "Update" /\ recorder.m_isRecording
    /\ settings.m_autoMode
    /\ settings.m_autoStopCondition = "EngineRunning"
    /\ settings.m_autoStartCondition = "EngineRunning"
    /\ EngName \notin hostVars
    /\ statics.engStop = "null" /\ statics.engStart = "null"
    /\ last.host.eng = <<0, 0>>
    /\ simTime = MaxSimTime
    /\ recorder.m_recordCount > 0

\* The auto predicates as stated, of the host's state h.
StartTruth(S, h) ==
    CASE S.m_autoStartCondition = "GroundSpeed" -> h.gs > S.m_autoStartThreshold
      [] S.m_autoStartCondition = "EngineRunning" -> \E i \in DOMAIN h.eng : h.eng[i] = 1
      [] OTHER -> h.onGround = 0
StopTruth(S, h) ==
    CASE S.m_autoStopCondition = "GroundSpeed" -> h.gs < S.m_autoStopThreshold
      [] S.m_autoStopCondition = "EngineRunning" -> \A i \in DOMAIN h.eng : h.eng[i] # 1
      [] OTHER -> h.onGround = 1

\* C25: with the required variable present, the start predicate is: ground
\* speed > start threshold; some engine slot running; the on-ground
\* indicator false.  The stop predicate is: ground speed < stop threshold;
\* no engine slot running; the on-ground indicator true.  Both ground-speed
\* predicates are false at equality.
C25_AutoPredicates ==
    [][ /\ (StartEvaluated /\ ConditionVar(settings.m_autoStartCondition) \in hostVars) =>
               /\ last'.startPred = StartTruth(settings, last'.host)
               /\ (settings.m_autoStartCondition = "GroundSpeed"
                      /\ last'.host.gs = settings.m_autoStartThreshold) => ~last'.startPred
        /\ (StopEvaluated /\ ConditionVar(settings.m_autoStopCondition) \in hostVars) =>
               /\ last'.stopPred = StopTruth(settings, last'.host)
               /\ (settings.m_autoStopCondition = "GroundSpeed"
                      /\ last'.host.gs = settings.m_autoStopThreshold) => ~last'.stopPred ]_vars

\* A tick of a session under the ground-speed stop condition has just found
\* the speed equal to the threshold, the predicate false, and has reset the
\* confirmation timer.
C25_Witness ==
    /\ last.op = "Update" /\ recorder.m_isRecording
    /\ settings.m_autoMode /\ statics.timeRef = "found"
    /\ settings.m_autoStopCondition = "GroundSpeed" /\ GsName \in hostVars
    /\ last.host.gs = settings.m_autoStopThreshold
    /\ last.stopPred = FALSE
    /\ recorder.m_autoStopTimer = 0
    /\ hist.held = -1

\* The sum of max(arity, 1) over the definitions of one kind, from the k-th.
RECURSIVE SlotsOfKind(_, _, _)
SlotsOfKind(defs, k, type) ==
    IF k > Len(defs) THEN 0
    ELSE (IF defs[k].type = type THEN Slots(defs[k]) ELSE 0) + SlotsOfKind(defs, k + 1, type)

\* The entries of one kind among the values of a frame.
EntriesOfKind(es, kind) == Cardinality({i \in DOMAIN es : es[i].kind = kind})

C27_TextWholeOrEmpty ==
    last.op = "Encode" =>
        LET at == 4 + 4 + 1
            written == SubSeq(last.bytes, at + 1, Len(last.bytes))
        IN  /\ last.bytes[at] = Len(written)
            /\ written = last.text \/ written = << >>
            /\ (~last.ok \/ Len(last.text) > MAX_STRING_LEN) => written = << >>

\* What endpoint detection must return for the answer nav of the airport
\* query: detected when an airport is found within the limit, with the
\* airport's code, name and position; else the undetected endpoint.
EndpointAsStated(a, nav) ==
    /\ a.valid <=> (nav.found /\ nav.dist <= NEAR_TENTHS_NM)
    /\ a.valid => a = AirportInfo(nav.id, nav.name, nav.lat, nav.lon, TRUE)
    /\ ~a.valid => a.icao = "" /\ a.name = "" /\ a.lat = 0 /\ a.lon = 0

\* C28: endpoint detection returns a detected endpoint if and only if the
\* nearest-airport query finds an airport and its distance is <= 5.0 nm;
\* otherwise the endpoint is undetected, with empty code, empty name and
\* zero coordinates.  Start() stores the detection as the departure, Stop()
\* as the arrival, when the host has the position variables.
C28_EndpointDetection ==
    [][ (LatName \in hostVars /\ LonName \in hostVars) =>
           /\ (IsStartCall /\ last'.nStart = 1) =>
                  EndpointAsStated(recorder'.m_departureAirport, last'.host)
           /\ (IsStopCall /\ last'.ret) =>
                  EndpointAsStated(recorder'.m_arrivalAirport, last'.host) ]_vars

\* A session that departed from an airport at exactly the limit distance has
\* just been stopped where the nearest airport is beyond the limit.
C28_Witness ==
    /\ last.op = "Stop" /\ last.ret
    /\ LatName \in hostVars /\ LonName \in hostVars
    /\ last.host = NavFar
    /\ recorder.m_arrivalAirport = NoAirport
    /\ recorder.m_departureAirport.valid
    /\ recorder.m_departureAirport.icao = NavAtLimit.id

\* C29: immediately after a successful Start() the record count, the
\* bytes-written counter, the auto-stop confirmation timer and the
\* performance accumulators (average, maximum, total, sample count) are all
\* zero, whatever the session before left in them.
C29_StartResetsCounters ==
    [][ (IsStartCall /\ last'.ret) =>
            /\ recorder'.m_isRecording
            /\ recorder'.m_recordCount = 0
            /\ recorder'.m_bytesWritten = 0
            /\ recorder'.m_autoStopTimer = 0
            /\ recorder'.m_averageRecordTime = 0
            /\ recorder'.m_maxRecordTime = 0
            /\ recorder'.m_totalRecordTime = 0
            /\ recorder'.m_perfSampleCount = 0 ]_vars

\* A second session has just been started by a call, in auto-mode, after a
\* first one that wrote frames and was closed by the footer.
C29_Witness ==
    /\ last.op = "Start" /\ last.ret /\ nStarts = 2
    /\ recorder.m_isRecording /\ recorder.m_recordCount = 0
    /\ settings.m_autoMode
    /\ \E p \in DOMAIN disk :
         /\ p # recorder.m_currentFilePath
         /\ NumData(disk[p]) > 0
         /\ disk[p][Len(disk[p])].b = "ENDR"

\* C30: after any sequence of Init() and Reload() calls at any levels the
\* names of the registry's definitions are unique, and the name-to-index
\* map has exactly these names and gives each definition's position.
C30_UniqueNamesAndIndex ==
    LET defs == datarefMgr.m_datarefs
        idx == datarefMgr.m_datarefIndex
    IN  /\ \A i, j \in DOMAIN defs : defs[i].name = defs[j].name => i = j
        /\ DOMAIN idx = {defs[i].name : i \in DOMAIN defs}
        /\ \A i \in DOMAIN defs : idx[defs[i].name] = i - 1

\* The step is a Reload() of the registry.
IsReload == last'.op = "Reload"

\* The list a is a prefix of the list b.
IsPrefix(a, b) == Len(a) <= Len(b) /\ SubSeq(b, 1, Len(a)) = a

\* C31: after Reload() the definition list and the name-to-index map are
\* those of a fresh build at the current level on the same host (nothing of
\* a level selected before survives); the Basic list is a prefix of the
\* Normal list and the Normal list a prefix of the Detailed list; a second
\* Reload() changes nothing.
C31_ReloadIsRebuild ==
    [][ IsReload =>
            LET fresh == DatarefManagerInit(settings'.m_recordingLevel, hostVars)
            IN  /\ datarefMgr'.m_datarefs = fresh.m_datarefs
                /\ datarefMgr'.m_datarefIndex = fresh.m_datarefIndex
                /\ Reload(datarefMgr', settings'.m_recordingLevel, hostVars) = datarefMgr'
                /\ IsPrefix(LoadDatarefs(<< >>, 1, hostVars), LoadDatarefs(<< >>, 2, hostVars))
                /\ IsPrefix(LoadDatarefs(<< >>, 2, hostVars), LoadDatarefs(<< >>, 3, hostVars)) ]_vars

\* The registry has just been reloaded at the Simple level in a session
\* whose header was written from a longer list, on a host that lacks some
\* of the catalogue.
C31_Witness ==
    /\ last.op = "Reload" /\ settings.m_recordingLevel = 1
    /\ recorder.m_isRecording
    /\ hostVars # AllHostNames
    /\ Len(SessionFile) > 0 /\ SessionFile[1].b = "XFDR"
    /\ Len(SessionFile[1].table) > Len(datarefMgr.m_datarefs)


\* C32: after any sequence of plugin Enable and Disable calls at most one
\* flight-loop callback is registered, and Update runs at most once per
\* simulator frame.
C32_OneCallbackPerFrame ==
    /\ plugin.flightLoops <= 1
    /\ plugin.calls <= 1

\* The engine is Recording with auto-mode enabled.
RecordingInAutoMode == recorder.m_isRecording /\ settings.m_autoMode

\* C33 as stated: when the engine is Recording with auto-mode enabled, the
\* stop predicate is true on every tick, every tick has dt >= 1 and ticks
\* keep coming, the engine eventually becomes Idle.
C33_AutoStopEventually == RecordingInAutoMode ~> ~recorder.m_isRecording

\* C33 amended: the same on a host that exposes the simulation clock.
C33_AutoStopWithClock ==
    (RecordingInAutoMode /\ XPLMFindDataRef(hostVars, TimeName)) ~> ~recorder.m_isRecording

\* An auto-stop ended a session whose timer was built up over several ticks.
C33_Witness ==
    /\ last.op = "Update" /\ last.autoStop /\ ~recorder.m_isRecording
    /\ recorder.m_autoStopTimer >= AutoStopDelay
    /\ settings.m_autoMode /\ XPLMFindDataRef(hostVars, TimeName)
    /\ last.nStart = 0 /\ last.nFrame = 0
    /\ simTime = MaxSimTime

\* The DATA frames of the file at path p (none when there is no such file).
NumDataAt(d, p) == IF p \in DOMAIN d THEN NumData(d[p]) ELSE 0

\* C34: a tick attempts and writes at most one frame, whatever the time
\* since the last sample, and a tick on which an auto-stop fires attempts
\* and writes none.
C34_OneFramePerTick ==
    [][ IsTick =>
          /\ last'.nTry <= 1 /\ last'.nFrame <= last'.nTry
          /\ \A p \in DOMAIN disk' : NumDataAt(disk', p) <= NumDataAt(disk, p) + last'.nFrame
          /\ last'.autoStop => (last'.nTry = 0 /\ last'.nFrame = 0) ]_vars

\* A tick has written the one frame of its session more than one sampling
\* interval after the last sample time.
C34_Witness ==
    /\ last.op = "Update" /\ last.nFrame = 1 /\ last.nStart = 0
    /\ recorder.m_isRecording /\ recorder.m_recordCount = 1
    /\ recorder.m_lastRecordTime > settings.m_recordingInterval
    /\ NumData(SessionFile) = 1

\* The endpoint a call's own detection gives: the airport query's answer nav
\* when the position variables exist, else nothing.
DetectedNow(nav) ==
    IF LatName \in hostVars /\ LonName \in hostVars THEN DetectNearestAirport(nav)
    ELSE NoAirport

\* C35: the departure block of the header written by a successful Start()
\* is what detection gave during that Start(), and the arrival block of the
\* file of a successful Stop() is what detection gave during that Stop():
\* all-zero/empty when the position variables do not exist or no airport is
\* in range, whatever an earlier session detected.
C35_EndpointsOfThisSession ==
    [][ /\ (IsStartCall /\ last'.ret) =>
              SessionFile'[1].dep = AirportBlock(DetectedNow(last'.host))
        /\ (IsStopCall /\ last'.ret) =>
              StoppedFile[1].arr = AirportBlock(DetectedNow(last'.host)) ]_vars

\* What the tick does once its Start() has succeeded: the stop predicate is
\* evaluated, and a frame is attempted exactly when the interval has passed
\* since the last sample time, which Start() set to zero, and no auto-stop
\* fired.
FirstTickOfSession ==
    /\ last'.stopPred \in BOOLEAN
    /\ last'.nTry = IF ~last'.autoStop /\ simTime' >= settings.m_recordingInterval
                    THEN 1 ELSE 0
    /\ last'.nFrame <= last'.nTry

\* C36 as stated: on every tick in Idle with auto-mode enabled on which the
\* auto-start predicate is true of the host's state, also after a Stop(), the
\* engine calls Start(), is Recording, evaluates the stop predicate and
\* writes the first frame if the interval test passes.
C36_NoLatch ==
    [][ (IsIdleAutoTick /\ last'.hostStart = TRUE) =>
            /\ last'.nStart = 1
            /\ recorder'.m_isRecording \/ last'.nStop > 0
            /\ FirstTickOfSession ]_vars

\* C36, amended: the same when the simulation clock variable is found, the
\* rest of the tick running when Start() succeeds.
C36_NoLatchWithClock ==
    [][ (IsIdleAutoTick /\ statics'.timeRef = "found" /\ last'.hostStart = TRUE) =>
            /\ last'.nStart = 1
            /\ (recorder'.m_isRecording \/ last'.nStop > 0) => FirstTickOfSession
            /\ ~(recorder'.m_isRecording \/ last'.nStop > 0) => StillIdleNoFrame ]_vars

\* After a session that was stopped at an airport, a tick has started the
\* next session and written its first frame.
C36_Witness ==
    /\ last.op = "Update" /\ last.nStart = 1 /\ last.nFrame = 1
    /\ settings.m_autoMode /\ recorder.m_isRecording
    /\ nStarts = 2
    /\ recorder.m_arrivalAirport.valid
    /\ recorder.m_recordCount = 1

\* C37: once the lookup of the simulation-time variable has failed, every
\* tick is inert: it changes neither the engine, the registry nor any file,
\* calls neither Start() nor Stop(), evaluates no predicate and attempts no
\* frame; no file holds a frame.
C37_NoClockInertTicks ==
    [][ (IsTick /\ (statics.timeRef = "null" \/ statics'.timeRef = "null")) =>
            /\ statics'.timeRef = "null"
            /\ recorder' = recorder /\ disk' = disk /\ datarefMgr' = datarefMgr
            /\ last'.nStart = 0 /\ last'.nStop = 0 /\ last'.nTry = 0 /\ last'.nFrame = 0
            /\ last'.startPred = "na" /\ last'.stopPred = "na"
            /\ \A p \in DOMAIN disk' : NumData(disk'[p]) = 0 ]_vars

\* A manually started session, auto-mode enabled, on a vehicle that has the
\* clock variable by now, after the lookup had failed: the tick at which a
\* frame was due has written none.
C37_Witness ==
    /\ last.op = "Update" /\ statics.timeRef = "null"
    /\ XPLMFindDataRef(hostVars, TimeName)
    /\ recorder.m_isRecording /\ settings.m_autoMode
    /\ simTime >= settings.m_recordingInterval
    /\ NumData(SessionFile) = 0 /\ recorder.m_recordCount = 0

\* The size of the DATA frames of a file from block k on: the marker, the
\* timestamp and the values of each.
RECURSIVE DataBytes(_, _)
DataBytes(f, k) ==
    IF k > Len(f) THEN 0
    ELSE (IF f[k].b = "DATA" THEN 4 + 4 + SumBytes(f[k].vals, 1) ELSE 0) + DataBytes(f, k + 1)

\* C38: during a session the bytes-written counter is the total size of the
\* DATA frames written to the session's file since Start(), the header not
\* counted; a Stop() adds the 16 bytes of the footer, and nothing for the
\* patch of the header.
C38_BytesWritten ==
    [][ /\ recorder'.m_isRecording =>
              recorder'.m_bytesWritten = DataBytes(SessionFile', 1)
        /\ (StopSucceeded /\ last'.nTry = 0) =>
              recorder'.m_bytesWritten = recorder.m_bytesWritten + FOOTER_BYTES ]_vars

\* C39: the performance sample count equals the record count before and
\* after every step; a successful Start() zeroes both, and a tick raises
\* both by one for the frame it attempts, and by nothing otherwise.
C39_SamplesEqualRecords ==
    [][ /\ recorder.m_perfSampleCount = recorder.m_recordCount
        /\ recorder'.m_perfSampleCount = recorder'.m_recordCount
        /\ (last'.nStart > 0 /\ recorder'.m_isRecording /\ last'.nTry = 0) =>
               recorder'.m_recordCount = 0
        /\ (IsTick /\ last'.nStart = 0) =>
               recorder'.m_recordCount = recorder.m_recordCount + last'.nTry ]_vars

\* The second session of the run has its first frame: both counts are one,
\* a session with a frame having been stopped before.
C39_Witness ==
    /\ last.op = "Update" /\ last.nFrame = 1
    /\ recorder.m_isRecording /\ nStarts = 2
    /\ recorder.m_recordCount = 1 /\ recorder.m_perfSampleCount = 1
    /\ recorder.m_arrivalAirport.valid
    /\ recorder.m_totalRecordTime > 0
====
